---------------------------- MODULE Spec2Model ----------------------------
(***************************************************************************)
(* A model of the resource allocation and control engine of FindTheMag2:   *)
(* the retrying RPC access layer, the magnitude ratio cache, the URL       *)
(* canonicalizer, the log state classifier, the thermal PID controller,    *)
(* the magnitude efficiency selection, the priority ordering, the credit   *)
(* averages, the URL resolution for BOINC RPC, the statistics aggregation  *)
(* and the magnitude added to the combined statistics.                     *)
(* Each component has its own specification (SpecRpc, SpecMag, ...) over   *)
(* the module's variables; the variables of the other components stay at   *)
(* their initial values.                                                   *)
(***************************************************************************)
EXTENDS Integers, Sequences, FiniteSets, TLC

VARIABLES
    rpcFn,       \* which retry loop runs: "gridcoin" (run_command) or "boinc" (run_rpc_command)
    rpcPc,       \* position in the loop: "idle", "test", "sleep", "attempt", "done", "raised"
    rpcRetries,  \* self.retries / max_retries
    rpcCur,      \* current_retries
    rpcLog,      \* the sleeps and transport attempts made so far, in order
    rpcLast,     \* outcome of the latest transport attempt
    rpcRet       \* the value returned to the caller

VARIABLES
    urlOp,       \* the canonicalizer call made last: "none", "once", "twice", "list"
    urlIn,       \* its argument: a URL, or a list of URLs
    urlOut,      \* its result
    urlOut2      \* the result of canonicalizing urlOut again ("twice")

VARIABLES
    magCache,    \* ProjectMagRatio.PROJECT_MAG_RATIOS_CACHE
    magKind,     \* how the latest get_project_mag_ratios call went
    magResult,   \* what it returned
    magGood      \* the table of the most recent refresh that completed (history)

rpcVars == <<rpcFn, rpcPc, rpcRetries, rpcCur, rpcLog, rpcLast, rpcRet>>
urlVars == <<urlOp, urlIn, urlOut, urlOut2>>
magVars == <<magCache, magKind, magResult, magGood>>

\* Thermal PID controller: the controller object, the last operation on it
\* and how it ended, the delta of the last update, the number of operations,
\* the last exported state and the controller it was imported into.
VARIABLES
    pid, pidOp, pidErr, pidDelta, pidSteps, pidExported, pidFresh, pidFreshErr

pidVars == <<pid, pidOp, pidErr, pidDelta, pidSteps, pidExported, pidFresh, pidFreshErr>>

\* Log state classifier: the call made (the queried project and the log
\* excerpt) and its verdict.
VARIABLES
    logOp, logProject, logMessages, logResult

logVars == <<logOp, logProject, logMessages, logResult>>

\* Magnitude efficiency selection: the call made (the statistics, the ignored
\* projects and the tolerance) and the list it returned.
VARIABLES
    effOp, effStats, effIgnored, effPercent, effResult

effVars == <<effOp, effStats, effIgnored, effPercent, effResult>>

\* Priority ordering: the call made (statistics, weights, attached
\* projects) and the ordering and deficit map it returned.
VARIABLES
    prioOp, prioStats, prioWeights, prioAttached, prioList, prioDict

prioVars == <<prioOp, prioStats, prioWeights, prioAttached, prioList, prioDict>>

\* Credit averages: the call made (one project's credit and task history)
\* and the compiled statistics, or the error raised.
VARIABLES
    avgOp, avgCredit, avgWus, avgOut

avgVars == <<avgOp, avgCredit, avgWus, avgOut>>

\* URL resolution for BOINC RPC: the memo of _resolve_url_boinc_rpc, the
\* call made and the URL it returned.
VARIABLES
    burlOp, burlCache, burlUrl, burlAttached, burlDev, burlKnown, burlDevMode, burlOut

burlVars == <<burlOp, burlCache, burlUrl, burlAttached, burlDev, burlKnown, burlDevMode, burlOut>>

\* Magnitude ratios from a response: the call made (the superblock series,
\* the project directory, the lookback period) and its outcome.
VARIABLES
    ratioOp, ratioReply, ratioResolver, ratioLookback, ratioOut

ratioVars == <<ratioOp, ratioReply, ratioResolver, ratioLookback, ratioOut>>

\* Statistics aggregation: the call made (the directory listing) and the
\* statistics returned, or the error raised.
VARIABLES
    cfgOp, cfgDir, cfgOut

cfgVars == <<cfgOp, cfgDir, cfgOut>>

\* add_mag_to_combined_stats: the call made last, its arguments and the
\* pair it returned.
VARIABLES
    amagOp, amagStats, amagRatios, amagApproved, amagPreferred, amagOut

amagVars == <<amagOp, amagStats, amagRatios, amagApproved, amagPreferred, amagOut>>

vars == <<rpcVars, urlVars, magVars, pidVars, logVars, effVars, prioVars, avgVars, burlVars, ratioVars, cfgVars, amagVars>>

\* For each component, the variables of the other components.
rpcOthers == <<urlVars, magVars, pidVars, logVars, effVars, prioVars, avgVars, burlVars, ratioVars, cfgVars, amagVars>>
urlOthers == <<rpcVars, magVars, pidVars, logVars, effVars, prioVars, avgVars, burlVars, ratioVars, cfgVars, amagVars>>
magOthers == <<rpcVars, urlVars, pidVars, logVars, effVars, prioVars, avgVars, burlVars, ratioVars, cfgVars, amagVars>>
pidOthers == <<rpcVars, urlVars, magVars, logVars, effVars, prioVars, avgVars, burlVars, ratioVars, cfgVars, amagVars>>
logOthers == <<rpcVars, urlVars, magVars, pidVars, effVars, prioVars, avgVars, burlVars, ratioVars, cfgVars, amagVars>>
effOthers == <<rpcVars, urlVars, magVars, pidVars, logVars, prioVars, avgVars, burlVars, ratioVars, cfgVars, amagVars>>
prioOthers == <<rpcVars, urlVars, magVars, pidVars, logVars, effVars, avgVars, burlVars, ratioVars, cfgVars, amagVars>>
avgOthers == <<rpcVars, urlVars, magVars, pidVars, logVars, effVars, prioVars, burlVars, ratioVars, cfgVars, amagVars>>
burlOthers == <<rpcVars, urlVars, magVars, pidVars, logVars, effVars, prioVars, avgVars, ratioVars, cfgVars, amagVars>>
ratioOthers == <<rpcVars, urlVars, magVars, pidVars, logVars, effVars, prioVars, avgVars, burlVars, cfgVars, amagVars>>
cfgOthers == <<rpcVars, urlVars, magVars, pidVars, logVars, effVars, prioVars, avgVars, burlVars, ratioVars, amagVars>>
amagOthers == <<rpcVars, urlVars, magVars, pidVars, logVars, effVars, prioVars, avgVars, burlVars, ratioVars, cfgVars>>

(***************************************************************************)
(* Strings are sequences of one-character strings.                         *)
(***************************************************************************)

LowerChars == <<"a","b","c","d","e","f","g","h","i","j","k","l","m",
                "n","o","p","q","r","s","t","u","v","w","x","y","z">>
UpperChars == <<"A","B","C","D","E","F","G","H","I","J","K","L","M",
                "N","O","P","Q","R","S","T","U","V","W","X","Y","Z">>

LowerSet == {LowerChars[i] : i \in DOMAIN LowerChars}
UpperOf == [c \in LowerSet |->
              UpperChars[CHOOSE i \in DOMAIN LowerChars : LowerChars[i] = c]]

UpperChar(c) == IF c \in LowerSet THEN UpperOf[c] ELSE c

\* str.upper()
Upper(s) == [i \in DOMAIN s |-> UpperChar(s[i])]

\* s.startswith(p)
StartsWith(s, p) == Len(s) >= Len(p) /\ SubSeq(s, 1, Len(p)) = p

\* s.endswith(p)
EndsWith(s, p) == Len(s) >= Len(p) /\ SubSeq(s, Len(s) - Len(p) + 1, Len(s)) = p

\* p in s
Contains(s, p) ==
    \/ p = <<>>
    \/ \E i \in 1..(Len(s) - Len(p) + 1) :
          s[i] = p[1] /\ SubSeq(s, i, i + Len(p) - 1) = p

\* s.replace(p, ""): every non-overlapping occurrence of p, scanning from the left.
RECURSIVE Remove(_, _)
Remove(s, p) ==
    IF Len(s) < Len(p) THEN s
    ELSE IF StartsWith(s, p) THEN Remove(SubSeq(s, Len(p) + 1, Len(s)), p)
    ELSE <<Head(s)>> \o Remove(Tail(s), p)

(***************************************************************************)
(* URL canonicalizer: utils.resolve_url_database and                      *)
(* resolve_url_list_to_database                                            *)
(***************************************************************************)

HttpsWww == <<"H","T","T","P","S",":","/","/","W","W","W",".">>
HttpWww == <<"H","T","T","P",":","/","/","W","W","W",".">>
Https == <<"H","T","T","P","S",":","/","/">>
Http == <<"H","T","T","P",":","/","/">>
Www == <<"W","W","W",".">>
Slash == <<"/">>
WcgBoinc == <<"W","O","R","L","D","C","O","M","M","U","N","I","T","Y","G","R","I","D",".","O","R","G","/","B","O","I","N","C">>
Wcg == <<"W","O","R","L","D","C","O","M","M","U","N","I","T","Y","G","R","I","D",".","O","R","G">>

\* if canonical.endswith("/"): canonical = canonical[:-1]
StripTrailingSlash(s) == IF EndsWith(s, Slash) THEN SubSeq(s, 1, Len(s) - 1) ELSE s

\* if canonical.startswith("WWW."): canonical = canonical.replace("WWW.", "")
StripLeadingWww(s) == IF StartsWith(s, Www) THEN Remove(s, Www) ELSE s

\* if "WORLDCOMMUNITYGRID.ORG/BOINC" in canonical: canonical = "WORLDCOMMUNITYGRID.ORG"
CollapseAlias(s) == IF Contains(s, WcgBoinc) THEN Wcg ELSE s

\* _resolve_url_database(uppered)
ResolveUppered(uppered) ==
    LET c1 == Remove(uppered, HttpsWww)
        c2 == Remove(c1, HttpWww)
        c3 == Remove(c2, Https)
        c4 == Remove(c3, Http)
        c5 == StripLeadingWww(c4)
        c6 == StripTrailingSlash(c5)
    IN  CollapseAlias(c6)

\* resolve_url_database(url)
ResolveUrlDatabase(url) == ResolveUppered(Upper(url))

\* resolve_url_list_to_database(url_list)
ResolveUrlListToDatabase(urlList) ==
    [i \in DOMAIN urlList |-> ResolveUrlDatabase(urlList[i])]

\* Raw URLs are built from at most MaxPieces of these pieces.
MaxPieces == 4

UrlPieces == {
    <<"h","t","t","p","s",":","/","/">>, <<"h","t","t","p",":","/","/">>, <<"w","w","w",".">>,
    <<"h","t">>, <<"t","p",":","/","/">>,
    <<"/">>, <<"a">>, <<"B",".","c">>,
    <<"w","o","r","l","d","c","o","m","m","u","n","i","t","y","g","r","i","d",".","o","r","g","/","b","o","i","n","c">> }

RECURSIVE Concat(_)
Concat(ps) == IF ps = <<>> THEN <<>> ELSE Head(ps) \o Concat(Tail(ps))

PieceLists(n) == UNION {[1..k -> UrlPieces] : k \in 0..n}

RawUrls == {Concat(ps) : ps \in PieceLists(MaxPieces)}

\* Host+path strings X for the spelling check: a host piece, then up to
\* MaxPieces - 1 further pieces, not ending in a slash or a dot.
HostHeads == { <<"a">>, <<"B",".","c">> }
HostTails == HostHeads \cup { <<"/">>, <<"/","w","w","w",".">> }

HostCandidates ==
    { h \o Concat(ps) : h \in HostHeads,
                        ps \in UNION {[1..k -> HostTails] : k \in 0..(MaxPieces - 1)} }

HostPaths == { x \in HostCandidates : ~EndsWith(x, Slash) /\ ~EndsWith(x, <<".">>) }

SchemePrefixes == << <<"h","t","t","p","s",":","/","/","w","w","w",".">>, <<"h","t","t","p",":","/","/","w","w","w",".">>, <<"h","t","t","p","s",":","/","/">>, <<"h","t","t","p",":","/","/">>, <<"w","w","w",".">>, <<>> >>

\* The spellings of X: each prefix, with and without one trailing slash, as
\* written and upper-cased.
Spellings(x) ==
    LET plain == [i \in 1..Len(SchemePrefixes) |-> SchemePrefixes[i] \o x]
        slashed == [i \in 1..Len(SchemePrefixes) |-> SchemePrefixes[i] \o x \o Slash]
        both == plain \o slashed
    IN  both \o [i \in DOMAIN both |-> Upper(both[i])]

UrlInit ==
    /\ urlOp = "none"
    /\ urlIn = <<>>
    /\ urlOut = <<>>
    /\ urlOut2 = <<>>

\* resolve_url_database(url) on a raw URL.
ResolveOnce ==
    /\ urlOp = "none"
    /\ \E url \in RawUrls :
          /\ urlIn' = url
          /\ urlOut' = ResolveUrlDatabase(url)
    /\ urlOp' = "once"
    /\ urlOut2' = <<>>
    /\ UNCHANGED urlOthers

\* resolve_url_database applied to the key the previous call returned.
ResolveAgain ==
    /\ urlOp = "once"
    /\ urlOut2' = ResolveUrlDatabase(urlOut)
    /\ urlOp' = "twice"
    /\ UNCHANGED <<urlIn, urlOut>>
    /\ UNCHANGED urlOthers

\* resolve_url_list_to_database on the spellings of one host+path.
ResolveList ==
    /\ urlOp = "none"
    /\ \E x \in HostPaths :
          /\ urlIn' = Spellings(x)
          /\ urlOut' = ResolveUrlListToDatabase(Spellings(x))
    /\ urlOp' = "list"
    /\ urlOut2' = <<>>
    /\ UNCHANGED urlOthers

\* The caller is done with the keys; the next call may start.
UrlFinish ==
    /\ urlOp \in {"twice", "list"}
    /\ urlOp' = "none"
    /\ urlIn' = <<>>
    /\ urlOut' = <<>>
    /\ urlOut2' = <<>>
    /\ UNCHANGED urlOthers

UrlNext ==
    \/ ResolveOnce
    \/ ResolveAgain
    \/ ResolveList
    \/ UrlFinish

(***************************************************************************)
(* Resilient RPC access layer                                              *)
(*   GridcoinClientConnection.run_command and run_rpc_command              *)
(***************************************************************************)

\* Largest value of GridcoinClientConnection.retries explored.
MaxRetries == 3

\* max_retries of run_rpc_command.
BoincMaxRetries == 3

\* Python values a parsed response can be.  The first six are falsy.
FalsyValues == {"None", "EmptyStr", "EmptyDict", "EmptyList", "Zero", "False"}
TruthyValues == {"Dict", "Str"}
ParsedValues == FalsyValues \cup TruthyValues

\* What one transport attempt can do: the request raises, the reply cannot be
\* parsed (response.json() / parse_generic raises), or a value is parsed.
AttemptOutcomes == {"TransportError", "Unparseable"} \cup ParsedValues

\* Fault variant of StrIsEmpty: `if not parsed` in place of `if not str(parsed)`.
StrIsEmptyOrFalsy(v) == v \in FalsyValues

\* str(parsed) == "": only the empty string has an empty string form
\* (str(None) is "None", str({}) is "{}", str([]) is "[]").
StrIsEmpty(v) == v = "EmptyStr"

\* Fault variant of HandlerCatches: a handler that names the JSON error only.
HandlerCatchesParseErrorOnly(o) == o = "Unparseable"

\* `except Exception`: both the transport error and the parse error are caught.
HandlerCatches(o) == o \in {"TransportError", "Unparseable"}

\* The try/except/else of one attempt of run_command: "retry" (except: pass),
\* "return" (else: return return_response) or "raise".
GridcoinAttempt(o) ==
    IF o \in {"TransportError", "Unparseable"}
    THEN (IF HandlerCatches(o) THEN "retry" ELSE "raise")
    ELSE "return"

\* The try/except/else of one attempt of run_rpc_command.
BoincAttempt(o) ==
    IF o \in {"TransportError", "Unparseable"}
    THEN (IF HandlerCatches(o) THEN "retry" ELSE "raise")
    ELSE IF StrIsEmpty(o) THEN "retry" ELSE "return"

AttemptVerdict(fn, o) ==
    IF fn = "gridcoin" THEN GridcoinAttempt(o) ELSE BoincAttempt(o)

RpcInit ==
    /\ rpcFn = "none"
    /\ rpcPc = "idle"
    /\ rpcRetries = 0
    /\ rpcCur = 0
    /\ rpcLog = <<>>
    /\ rpcLast = "NoAttempt"
    /\ rpcRet = "NotReturned"

\* run_command is entered on a connection built with `retries`.
RunCommand ==
    /\ rpcPc = "idle"
    /\ \E r \in 0..MaxRetries :
          /\ rpcFn' = "gridcoin"
          /\ rpcRetries' = r
    /\ rpcCur' = 0
    /\ rpcPc' = "test"
    /\ UNCHANGED <<rpcLog, rpcLast, rpcRet>>
    /\ UNCHANGED rpcOthers

\* run_rpc_command is entered.
RunRpcCommand ==
    /\ rpcPc = "idle"
    /\ rpcFn' = "boinc"
    /\ rpcRetries' = BoincMaxRetries
    /\ rpcCur' = 0
    /\ rpcPc' = "test"
    /\ UNCHANGED <<rpcLog, rpcLast, rpcRet>>
    /\ UNCHANGED rpcOthers

\* Fault variant of LoopTest: `<=` in place of `<`.
LoopTestOffByOne ==
    /\ rpcPc = "test"
    /\ IF rpcCur <= rpcRetries
       THEN /\ rpcPc' = "sleep"
            /\ UNCHANGED rpcRet
       ELSE /\ rpcPc' = "done"
            /\ rpcRet' = "None"
    /\ UNCHANGED <<rpcFn, rpcRetries, rpcCur, rpcLog, rpcLast>>
    /\ UNCHANGED rpcOthers

\* while current_retries < retries: ...   /  falling out of the loop returns None.
LoopTest ==
    /\ rpcPc = "test"
    /\ IF rpcCur < rpcRetries
       THEN /\ rpcPc' = "sleep"
            /\ UNCHANGED rpcRet
       ELSE /\ rpcPc' = "done"
            /\ rpcRet' = "None"
    /\ UNCHANGED <<rpcFn, rpcRetries, rpcCur, rpcLog, rpcLast>>
    /\ UNCHANGED rpcOthers

\* sleep(retry_delay) and current_retries += 1 (in either order).
Sleep ==
    /\ rpcPc = "sleep"
    /\ rpcCur' = rpcCur + 1
    /\ rpcLog' = Append(rpcLog, "sleep")
    /\ rpcPc' = "attempt"
    /\ UNCHANGED <<rpcFn, rpcRetries, rpcLast, rpcRet>>
    /\ UNCHANGED rpcOthers

\* One transport attempt and the handling of its outcome.
Attempt ==
    /\ rpcPc = "attempt"
    /\ \E o \in AttemptOutcomes :
          /\ rpcLast' = o
          /\ rpcLog' = Append(rpcLog, o)
          /\ LET v == AttemptVerdict(rpcFn, o) IN
                CASE v = "retry"  -> /\ rpcPc' = "test"
                                     /\ UNCHANGED rpcRet
                  [] v = "return" -> /\ rpcPc' = "done"
                                     /\ rpcRet' = o
                  [] v = "raise"  -> /\ rpcPc' = "raised"
                                     /\ UNCHANGED rpcRet
    /\ UNCHANGED <<rpcFn, rpcRetries, rpcCur>>
    /\ UNCHANGED rpcOthers

\* The caller takes the result; the next call may start.
RpcFinish ==
    /\ rpcPc \in {"done", "raised"}
    /\ rpcFn' = "none"
    /\ rpcPc' = "idle"
    /\ rpcRetries' = 0
    /\ rpcCur' = 0
    /\ rpcLog' = <<>>
    /\ rpcLast' = "NoAttempt"
    /\ rpcRet' = "NotReturned"
    /\ UNCHANGED rpcOthers

RpcNext ==
    \/ RunCommand
    \/ RunRpcCommand
    \/ LoopTest
    \/ Sleep
    \/ Attempt
    \/ RpcFinish

(***************************************************************************)
(* Magnitude ratio engine: ProjectMagRatio.get_project_mag_ratios and      *)
(* get_project_mag_ratios_from_response                                    *)
(***************************************************************************)

\* Project names of the superblocks, in the order a snapshot lists them.
MagNames == << <<"a">>, <<"b">> >>
MagNameSet == {MagNames[i] : i \in DOMAIN MagNames}

\* Sample RAC values and sample totals of snapshot 0.
RacValues == {1, 3}
TotalMagnitudes == {4}
TotalProjects == {0, 2}

\* Longest superblock series explored.
MaxSnapshots == 2

\* The projects of one snapshot: name -> rac.
ProjectMaps == UNION {[S -> RacValues] : S \in SUBSET MagNameSet}

\* Snapshot 0: every listing with a non-zero total_projects, and one
\* snapshot for each zero total_projects (it raises whatever it lists).
NewestSnapshots ==
    [total_magnitude : TotalMagnitudes, total_projects : TotalProjects \ {0},
     projects : ProjectMaps]
    \cup [total_magnitude : TotalMagnitudes, total_projects : TotalProjects \cap {0},
          projects : {[n \in MagNameSet |-> 1]}]
OlderSnapshots ==
    [total_magnitude : TotalMagnitudes, total_projects : {2}, projects : ProjectMaps]

\* Superblock series, index 1 = most recent (index 0 of the code).
SeriesOfLen(n) ==
    IF n = 0 THEN {<<>>}
    ELSE {<<s0>> \o rest : s0 \in NewestSnapshots, rest \in [1..(n - 1) -> OlderSnapshots]}
AllSeries == UNION {SeriesOfLen(n) : n \in 0..MaxSnapshots}

\* A reply to the superblocks command: falsy (None, {}), a dict whose "result"
\* is None (an error reply), or a dict whose "result" is a series.
FalsyReply == [kind |-> "falsy", series |-> <<>>]
ErrorReply == [kind |-> "error", series |-> <<>>]
SeriesReplies == {[kind |-> "ok", series |-> sr] : sr \in AllSeries}

\* Project directories (listprojects results / grc_projects): ordered
\* name -> base URL.  The empty one is falsy.
Resolvers == {
    << [name |-> <<"A">>, url |-> <<"h","t","t","p","s",":","/","/","w","w","w",".","s",".","t","/">>] >>,
    << [name |-> <<"a">>, url |-> <<"h","t","t","p",":","/","/","p",".","q">>], [name |-> <<"b">>, url |-> <<"r","/">>] >>,
    << [name |-> <<"a">>, url |-> <<"h","t","t","p",":","/","/","p",".","q">>], [name |-> <<"B">>, url |-> <<"P",".","Q">>] >>,
    << [name |-> <<"c">>, url |-> <<"r">>] >> }

RECURSIVE Gcd(_, _)
Gcd(a, b) == IF b = 0 THEN a ELSE Gcd(b, a % b)

\* The quotient n/d (d > 0, n >= 0) in lowest terms; rounding is not modelled.
Frac(n, d) == <<n \div Gcd(n, d), d \div Gcd(n, d)>>

RECURSIVE SumSeq(_)
SumSeq(q) == IF q = <<>> THEN 0 ELSE Head(q) + SumSeq(Tail(q))

\* grc_project_name_to_url: the first entry whose upper-cased name matches.
RECURSIVE GrcProjectNameToUrl(_, _)
GrcProjectNameToUrl(searchname, all_projects) ==
    IF all_projects = <<>> THEN [found |-> FALSE, url |-> <<>>]
    ELSE IF Upper(Head(all_projects).name) = Upper(searchname)
         THEN [found |-> TRUE, url |-> Head(all_projects).url]
         ELSE GrcProjectNameToUrl(searchname, Tail(all_projects))

\* The first loop of get_project_mag_ratios_from_response: the RAC values
\* collected for `name` over snapshots 1..lookback.  A project is tracked only
\* if snapshot 0 lists it; later snapshots append to tracked projects only.
RECURSIVE CollectRacs(_, _, _, _)
CollectRacs(series, name, i, lookback) ==
    IF i > lookback THEN <<>>
    ELSE (IF name \in DOMAIN series[i].projects
          THEN <<series[i].projects[name]>> ELSE <<>>)
         \o CollectRacs(series, name, i + 1, lookback)

\* Fault variant of TrackedNames: a project is tracked from whichever
\* snapshot lists it first.
TrackedNamesAnySnapshot(series, lookback) ==
    IF lookback < 1 THEN <<>>
    ELSE SelectSeq(MagNames,
                   LAMBDA n : \E i \in 1..lookback : n \in DOMAIN series[i].projects)

\* Projects tracked after the first loop, in insertion order.
TrackedNames(series, lookback) ==
    IF lookback < 1 THEN <<>>
    ELSE SelectSeq(MagNames, LAMBDA n : n \in DOMAIN series[1].projects)

\* The second loop: one entry per tracked project that resolves to a URL;
\* a later project with the same canonical URL overwrites an earlier one.
\* acc.raised records the ZeroDivisionError of a zero average RAC.
RECURSIVE BuildTable(_, _, _, _, _)
BuildTable(names, series, resolver, lookback, acc) ==
    IF names = <<>> \/ acc.raised THEN acc
    ELSE
      LET name == Head(names)
          racs == CollectRacs(series, name, 1, lookback)
          found == GrcProjectNameToUrl(name, resolver)
          canonical == ResolveUrlDatabase(found.url)
          tm == series[1].total_magnitude
          tp == series[1].total_projects
          next ==
            IF ~found.found THEN acc
            ELSE IF SumSeq(racs) = 0 THEN [acc EXCEPT !.raised = TRUE]
            ELSE [acc EXCEPT !.table =
                     [u \in (DOMAIN acc.table) \cup {canonical} |->
                        IF u = canonical
                        THEN Frac(tm * Len(racs), tp * SumSeq(racs))
                        ELSE acc.table[u]]]
      IN  BuildTable(Tail(names), series, resolver, lookback, next)

\* get_project_mag_ratios_from_response(response["result"], resolver, lookback):
\* [raised, table].  It raises when "result" is None or holds fewer than
\* lookback snapshots (TypeError, IndexError), when total_projects is 0 and
\* when an average RAC is 0 (ZeroDivisionError).
FromResponse(reply, resolver, lookback) ==
    IF lookback >= 1 /\ reply.kind = "error" THEN [raised |-> TRUE, table |-> <<>>]
    ELSE IF lookback > Len(reply.series) THEN [raised |-> TRUE, table |-> <<>>]
    ELSE IF lookback >= 1 /\ reply.series[1].total_projects = 0
         THEN [raised |-> TRUE, table |-> <<>>]
    ELSE BuildTable(TrackedNames(reply.series, lookback), reply.series, resolver,
                    lookback, [raised |-> FALSE, table |-> <<>>])

\* Python's None and a returned table.
NoneResult == [isNone |-> TRUE, table |-> <<>>]
TableResult(t) == [isNone |-> FALSE, table |-> t]

\* Fault variant of Fallback: `return cache` without the length test.
FallbackUnguarded(cache) == TableResult(cache)

\* The except branch: the cache if it is not empty, else None.
Fallback(cache) ==
    IF Cardinality(DOMAIN cache) > 0 THEN TableResult(cache) ELSE NoneResult

\* Fault variant of CacheAfterFailure: the except branch resets the cache.
CacheResetOnFailure(cache) == <<>>

\* The cache after a call whose refresh did not complete.
CacheAfterFailure(cache) == cache

MagInit ==
    /\ magCache = <<>>
    /\ magKind = "none"
    /\ magResult = NoneResult
    /\ magGood = [has |-> FALSE, table |-> <<>>]

\* Lookback periods tried: 0 .. MaxSnapshots + 1.
Lookbacks == 0..(MaxSnapshots + 1)

\* Replies passed as the `response` argument (a testing aid): falsy, an error
\* reply, or a series of at most one snapshot.
ArgReplies ==
    {FalsyReply, ErrorReply} \cup {r \in SeriesReplies : Len(r.series) <= 1}

\* Project directories passed as the `grc_projects` argument (a testing aid).
ArgResolvers == {r \in Resolvers : Len(r) = 2}

\* Replies of the wallet to superblocks [lookback, True]: falsy, an error
\* reply, or a series of at most `lookback` snapshots.
RpcReplies(lookback) ==
    {FalsyReply, ErrorReply} \cup {r \in SeriesReplies : Len(r.series) <= lookback}

\* Results of run_command("listprojects"): None, or a dict whose "result" is a
\* project directory (possibly empty).
ListReplies ==
    {[isNone |-> TRUE, result |-> <<>>]}
    \cup {[isNone |-> FALSE, result |-> r] : r \in {<<>>} \cup Resolvers}

\* One call of get_project_mag_ratios(grc_client, lookback_period,
\* dump_rac_mag_ratios, response, grc_projects), from its entry to its return.
GetProjectMagRatios ==
    /\ magKind = "none"
    /\ \E client \in {"None", "Client"},
          lookback \in Lookbacks,
          respArg \in ArgReplies,
          projArg \in {<<>>} \cup ArgResolvers :
       \* the superblocks command is sent only if no response was passed
       \E respRpc \in (IF respArg.kind = "falsy" /\ client = "Client"
                       THEN RpcReplies(lookback) ELSE {FalsyReply}) :
       \* listprojects is sent only if no grc_projects was passed
       \E projRpc \in (IF projArg = <<>> /\ client = "Client"
                       THEN ListReplies ELSE {[isNone |-> TRUE, result |-> <<>>]}) :
         LET needSuper == respArg.kind = "falsy"
             response == IF needSuper THEN respRpc ELSE respArg
             needList == projArg = <<>>
             projects == IF needList THEN projRpc.result ELSE projArg
             early ==
               IF needSuper /\ client = "None" THEN "rpc_exception"
               ELSE IF response.kind = "falsy" THEN "empty_response"
               ELSE IF needList /\ (client = "None" \/ projRpc.isNone)
                    THEN "rpc_exception"
               ELSE IF projects = <<>> THEN "empty_response"
               ELSE "none"
         IN  IF early # "none"
             THEN \* except branch, nothing was computed
                  /\ magKind' = early
                  /\ magCache' = CacheAfterFailure(magCache)
                  /\ magResult' = Fallback(magCache')
                  /\ UNCHANGED magGood
             ELSE LET computed == FromResponse(response, projects, lookback) IN
                  IF computed.raised
                  THEN /\ magKind' = "compute_error"
                       /\ magCache' = CacheAfterFailure(magCache)
                       /\ magResult' = Fallback(magCache')
                       /\ UNCHANGED magGood
                  ELSE \* the cache is replaced; then the dump callback, if
                       \* any, runs and may raise into the except branch
                       \E dumpRaises \in BOOLEAN :
                         /\ magKind' = IF dumpRaises THEN "dump_error" ELSE "ok"
                         /\ magCache' = computed.table
                         /\ magGood' = [has |-> TRUE, table |-> computed.table]
                         /\ magResult' = IF dumpRaises THEN Fallback(magCache')
                                         ELSE TableResult(computed.table)
    /\ UNCHANGED magOthers

\* The caller takes the result; the next call may start.
MagFinish ==
    /\ magKind # "none"
    /\ magKind' = "none"
    /\ magResult' = NoneResult
    /\ UNCHANGED <<magCache, magGood>>
    /\ UNCHANGED magOthers

MagNext ==
    \/ GetProjectMagRatios
    \/ MagFinish

(***************************************************************************)
(* Thermal PID controller: tune_temp.PIDController                         *)
(***************************************************************************)

\* Numbers are rationals <<n, d>> with d > 0 in lowest terms (rounding is not
\* modelled); <<0, 0>> stands for Python's None and for an absent dict key.
NoneVal == <<0, 0>>
Zero == <<0, 1>>
One == <<1, 1>>

Abs(x) == IF x < 0 THEN -x ELSE x
Rat(n, d) == LET g == Gcd(Abs(n), d) IN <<n \div g, d \div g>>
RatNeg(a) == <<-a[1], a[2]>>
RatAdd(a, b) == Rat(a[1] * b[2] + b[1] * a[2], a[2] * b[2])
RatSub(a, b) == RatAdd(a, RatNeg(b))
RatMul(a, b) == Rat(a[1] * b[1], a[2] * b[2])
RatDiv(a, b) ==
    IF b[1] > 0 THEN Rat(a[1] * b[2], a[2] * b[1])
    ELSE Rat(-(a[1] * b[2]), -(a[2] * b[1]))
RatLess(a, b) == a[1] * b[2] < b[1] * a[2]
RatMin(a, b) == IF RatLess(b, a) THEN b ELSE a
RatMax(a, b) == IF RatLess(a, b) THEN b ELSE a
RatAbs(a) == <<Abs(a[1]), a[2]>>

\* target_opt (the constructor's default), clamp_soft = log(1 / 0.001 - 1) =
\* 6.9067..., kept to one decimal, and clamp_hard = clamp_soft * 1.25.
TargetOpt == <<70, 1>>
ClampSoft == <<69, 10>>
ClampHard == RatMul(ClampSoft, <<5, 4>>)

\* Values of clamped_ctrl: clamped_low (0.0), clamped_high (1.0), or the
\* sigmoid of arg, which lies strictly between them.  "absent" marks a dict
\* without the key.
ClampedLow == [tag |-> "low", arg |-> Zero]
ClampedHigh == [tag |-> "high", arg |-> Zero]
Sigmoid(x) == [tag |-> "sig", arg |-> x]
ClampedAbsent == [tag |-> "absent", arg |-> Zero]

\* __init__: the controller after construction.
PIDController(init_ctrl) ==
    [ctrl |-> init_ctrl, reset_counter |-> 0, last_timestamp |-> NoneVal,
     error_0 |-> NoneVal, error_1 |-> NoneVal, delta_time |-> NoneVal,
     k_proportional |-> Zero, t_integral |-> Zero, t_derivative |-> Zero,
     k_ultimate |-> NoneVal, stable_period |-> NoneVal]

\* reset(counter)
reset(c, counter) ==
    LET c1 == [c EXCEPT !.reset_counter = c.reset_counter + 1] IN
    IF c1.reset_counter < counter THEN c1
    ELSE [c1 EXCEPT !.last_timestamp = NoneVal, !.error_0 = NoneVal,
                    !.error_1 = NoneVal, !.delta_time = NoneVal]

\* The clamped_ctrl property.
clamped_ctrl(c) ==
    IF RatLess(c.ctrl, RatNeg(ClampSoft)) THEN ClampedLow
    ELSE IF RatLess(ClampSoft, c.ctrl) THEN ClampedHigh
    ELSE Sigmoid(c.ctrl)

\* The clamped_ctrl setter: a value at or below clamped_low gives -clamp_soft,
\* one at or above clamped_high gives clamp_soft, one in between its logit.
clamped_ctrl_setter(c, value) ==
    IF value.tag = "low" THEN [c EXCEPT !.ctrl = RatNeg(ClampSoft)]
    ELSE IF value.tag = "high" THEN [c EXCEPT !.ctrl = ClampSoft]
    ELSE [c EXCEPT !.ctrl = value.arg]

\* export_state(): a dict with the keys ctrl and clamped_ctrl only.
export_state(c) ==
    [ctrl |-> c.ctrl, clamped_ctrl |-> clamped_ctrl(c),
     k_ultimate |-> NoneVal, stable_period |-> NoneVal,
     k_proportional |-> NoneVal, t_integral |-> NoneVal, t_derivative |-> NoneVal]

\* state.get(key, default)
Get(value, default) == IF value = NoneVal THEN default ELSE value

\* set_params_from_state(): [raised, c].  Either assert fails on None.
set_params_from_state(c) ==
    IF c.stable_period = NoneVal \/ c.k_ultimate = NoneVal
    THEN [raised |-> TRUE, c |-> c]
    ELSE [raised |-> FALSE,
          c |-> [c EXCEPT !.k_proportional = RatMul(<<3, 5>>, c.k_ultimate),
                          !.t_integral = RatMul(<<1, 2>>, c.stable_period),
                          !.t_derivative = RatMul(<<1, 8>>, c.stable_period)]]

\* import_state(state): [raised, c].  What was assigned before the assertion
\* failed stays assigned.
import_state(c, state) ==
    LET c1 == [c EXCEPT !.ctrl = Get(state.ctrl, c.ctrl)]
        c2 == IF state.clamped_ctrl.tag # "absent"
              THEN clamped_ctrl_setter(c1, state.clamped_ctrl) ELSE c1
        c3 == [c2 EXCEPT !.k_ultimate = Get(state.k_ultimate, c2.k_ultimate),
                         !.stable_period = Get(state.stable_period, c2.stable_period)]
        r == set_params_from_state(c3)
    IN  IF r.raised THEN r
        ELSE [raised |-> FALSE,
              c |-> [r.c EXCEPT
                       !.k_proportional = Get(state.k_proportional, r.c.k_proportional),
                       !.t_integral = Get(state.t_integral, r.c.t_integral),
                       !.t_derivative = Get(state.t_derivative, r.c.t_derivative)]]

\* Fault variant of anti_windup: the integral gain is kept while clamped.
keep_integral(k_i, clamped) == k_i

\* if clamped: k_i = 0.0
anti_windup(k_i, clamped) == IF clamped THEN Zero ELSE k_i

\* update_pid(error, delta_time, clamped): [raised, delta, c].  The division
\* k_d / dt_mid is evaluated whatever k_d is and raises ZeroDivisionError
\* when dt_mid is 0, before any field is assigned.
update_pid(c, error, delta_time, clamped) ==
    LET k_p0 == c.k_proportional
        k_i0 == IF c.t_integral # Zero THEN RatDiv(k_p0, c.t_integral) ELSE Zero
        k_d0 == RatMul(k_p0, c.t_derivative)
        noError0 == c.error_0 = NoneVal
        noHistory == c.delta_time = NoneVal \/ c.error_1 = NoneVal
        k_p == IF noError0 THEN Zero ELSE k_p0
        k_d == IF noError0 \/ noHistory THEN Zero ELSE k_d0
        dt_mid == IF noHistory THEN delta_time
                  ELSE RatDiv(RatAdd(delta_time, c.delta_time), <<2, 1>>)
        dt_ratio == IF noHistory THEN One ELSE RatDiv(delta_time, c.delta_time)
        k_i == anti_windup(k_i0, clamped)
    IN  IF dt_mid = Zero THEN [raised |-> TRUE, delta |-> NoneVal, c |-> c]
        ELSE
          LET d0 == RatMul(RatAdd(RatAdd(k_p, RatMul(k_i, delta_time)),
                                  RatDiv(k_d, dt_mid)), error)
              d1 == IF noError0 THEN Zero
                    ELSE RatMul(RatSub(RatNeg(k_p),
                                       RatDiv(RatMul(k_d, RatAdd(One, dt_ratio)), dt_mid)),
                                c.error_0)
              d2 == IF c.error_1 = NoneVal THEN Zero
                    ELSE RatMul(RatDiv(RatMul(k_d, dt_ratio), dt_mid), c.error_1)
          IN  [raised |-> FALSE,
               delta |-> RatAdd(RatAdd(d0, d1), d2),
               c |-> [c EXCEPT !.error_1 = c.error_0,
                               !.error_0 = error,
                               !.delta_time = IF RatLess(Zero, delta_time)
                                              THEN delta_time ELSE NoneVal]]

\* Fault variant of delta_update: the accumulator is clamped to clamp_soft.
delta_update_soft_clamp(c, opt_value, delta_time) ==
    LET error == RatSub(TargetOpt, opt_value)
        r == update_pid(c, error, delta_time, RatLess(ClampSoft, RatAbs(c.ctrl)))
    IN  IF r.raised THEN r
        ELSE [r EXCEPT !.c.ctrl =
                RatMax(RatNeg(ClampSoft), RatMin(ClampSoft, RatAdd(c.ctrl, r.delta)))]

\* delta_update(opt_value, delta_time): [raised, delta, c].
delta_update(c, opt_value, delta_time) ==
    LET error == RatSub(TargetOpt, opt_value)
        r == update_pid(c, error, delta_time, RatLess(ClampSoft, RatAbs(c.ctrl)))
    IN  IF r.raised THEN r
        ELSE [r EXCEPT !.c.ctrl =
                RatMax(RatNeg(ClampHard), RatMin(ClampHard, RatAdd(c.ctrl, r.delta)))]

\* timestamp_update(opt_value, timestamp): [raised, delta, c].  The first
\* call only records the timestamp.
timestamp_update(c, opt_value, timestamp) ==
    IF c.last_timestamp = NoneVal
    THEN [raised |-> FALSE, delta |-> NoneVal,
          c |-> [c EXCEPT !.last_timestamp = timestamp]]
    ELSE delta_update([c EXCEPT !.last_timestamp = timestamp], opt_value,
                      RatSub(timestamp, c.last_timestamp))

\* Longest sequence of operations on one controller explored.
MaxPidSteps == 4

\* Sample inputs: initial accumulators (inside the soft clamp, between the
\* clamps, beyond the hard clamp), measured values around the target, time
\* steps and timestamps, reset thresholds.
InitCtrls == {Zero, <<1, 1>>, <<8, 1>>, <<-10, 1>>}
OptValues == {<<69, 1>>, <<72, 1>>}
DeltaTimes == {Zero, <<2, 1>>}
Timestamps == {<<1, 1>>, <<3, 1>>}
ResetCounters == {0, 3}

\* A dict with no key.
EmptyState ==
    [ctrl |-> NoneVal, clamped_ctrl |-> ClampedAbsent,
     k_ultimate |-> NoneVal, stable_period |-> NoneVal,
     k_proportional |-> NoneVal, t_integral |-> NoneVal, t_derivative |-> NoneVal]

\* Dicts a caller tunes the controller with.
TuningStates ==
    {[EmptyState EXCEPT !.k_ultimate = <<5, 1>>, !.stable_period = <<4, 1>>]}

PidInit ==
    /\ pid = PIDController(Zero)
    /\ pidOp = "none"
    /\ pidErr = "none"
    /\ pidDelta = NoneVal
    /\ pidSteps = 0
    /\ pidExported = EmptyState
    /\ pidFresh = PIDController(Zero)
    /\ pidFreshErr = "none"

\* PIDController(init_ctrl)
Construct ==
    /\ pidOp = "none"
    /\ \E init_ctrl \in InitCtrls : pid' = PIDController(init_ctrl)
    /\ pidOp' = "init"
    /\ UNCHANGED <<pidErr, pidDelta, pidSteps, pidExported, pidFresh, pidFreshErr>>
    /\ UNCHANGED pidOthers

CallDeltaUpdate ==
    /\ pidOp # "none"
    /\ pidSteps < MaxPidSteps
    /\ \E opt_value \in OptValues, delta_time \in DeltaTimes :
          LET r == delta_update(pid, opt_value, delta_time) IN
            /\ pid' = r.c
            /\ pidDelta' = r.delta
            /\ pidErr' = IF r.raised THEN "ZeroDivisionError" ELSE "none"
    /\ pidOp' = "delta_update"
    /\ pidSteps' = pidSteps + 1
    /\ UNCHANGED <<pidExported, pidFresh, pidFreshErr>>
    /\ UNCHANGED pidOthers

CallTimestampUpdate ==
    /\ pidOp # "none"
    /\ pidSteps < MaxPidSteps
    /\ \E opt_value \in OptValues, timestamp \in Timestamps :
          LET r == timestamp_update(pid, opt_value, timestamp) IN
            /\ pid' = r.c
            /\ pidDelta' = r.delta
            /\ pidErr' = IF r.raised THEN "ZeroDivisionError" ELSE "none"
    /\ pidOp' = "timestamp_update"
    /\ pidSteps' = pidSteps + 1
    /\ UNCHANGED <<pidExported, pidFresh, pidFreshErr>>
    /\ UNCHANGED pidOthers

CallReset ==
    /\ pidOp # "none"
    /\ pidSteps < MaxPidSteps
    /\ \E counter \in ResetCounters : pid' = reset(pid, counter)
    /\ pidOp' = "reset"
    /\ pidErr' = "none"
    /\ pidDelta' = NoneVal
    /\ pidSteps' = pidSteps + 1
    /\ UNCHANGED <<pidExported, pidFresh, pidFreshErr>>
    /\ UNCHANGED pidOthers

\* import_state on the controller itself, with a tuning dict or with the
\* last exported state.
CallImportState ==
    /\ pidOp # "none"
    /\ pidSteps < MaxPidSteps
    /\ \E state \in TuningStates \cup {pidExported} :
          LET r == import_state(pid, state) IN
            /\ pid' = r.c
            /\ pidErr' = IF r.raised THEN "AssertionError" ELSE "none"
    /\ pidOp' = "import_state"
    /\ pidDelta' = NoneVal
    /\ pidSteps' = pidSteps + 1
    /\ UNCHANGED <<pidExported, pidFresh, pidFreshErr>>
    /\ UNCHANGED pidOthers

CallExportState ==
    /\ pidOp \notin {"none", "export_state"}
    /\ pidSteps < MaxPidSteps
    /\ pidExported' = export_state(pid)
    /\ pidOp' = "export_state"
    /\ pidErr' = "none"
    /\ pidDelta' = NoneVal
    /\ pidSteps' = pidSteps + 1
    /\ UNCHANGED <<pid, pidFresh, pidFreshErr>>
    /\ UNCHANGED pidOthers

\* The exported state is imported into a freshly constructed controller.
ImportIntoFresh ==
    /\ pidOp = "export_state"
    /\ LET r == import_state(PIDController(Zero), pidExported) IN
         /\ pidFresh' = r.c
         /\ pidFreshErr' = IF r.raised THEN "AssertionError" ELSE "none"
    /\ pidOp' = "import_fresh"
    /\ UNCHANGED <<pid, pidErr, pidDelta, pidSteps, pidExported>>
    /\ UNCHANGED pidOthers

PidNext ==
    \/ Construct
    \/ CallDeltaUpdate
    \/ CallTimestampUpdate
    \/ CallReset
    \/ CallImportState
    \/ CallExportState
    \/ ImportIntoFresh

(***************************************************************************)
(* Log state classifier: BoincClientConnection.cache_full                  *)
(***************************************************************************)

\* Phrases cache_full looks for in the upper-cased body.
NoNewTasksViaManager == <<"N","O","T"," ","R","E","Q","U","E","S","T","I","N","G"," ","T","A","S","K","S",":"," ","\"","N","O"," ","N","E","W"," ","T","A","S","K","S","\""," ","R","E","Q","U","E","S","T","E","D"," ","V","I","A"," ","M","A","N","A","G","E","R">>
CpuJobCacheFull == <<"C","P","U",":"," ","J","O","B"," ","C","A","C","H","E"," ","F","U","L","L">>
DontNeedJobCacheFull == <<"N","O","T"," ","R","E","Q","U","E","S","T","I","N","G"," ","T","A","S","K","S",":"," ","D","O","N","'","T"," ","N","E","E","D"," ","(","J","O","B"," ","C","A","C","H","E"," ","F","U","L","L",")">>
DontNeed == <<"N","O","T"," ","R","E","Q","U","E","S","T","I","N","G"," ","T","A","S","K","S",":"," ","D","O","N","'","T"," ","N","E","E","D">>
Gpu == <<"G","P","U">>
GpuJobCacheFull == <<"G","P","U",":"," ","J","O","B"," ","C","A","C","H","E"," ","F","U","L","L">>
GpusNotUsable == <<"G","P","U","S"," ","N","O","T"," ","U","S","A","B","L","E">>

\* str(message): the dict's repr, with the keys in the order the log reader
\* builds them; the digits of the time are left out.
ReprTime == <<"{","'","t","i","m","e","'",":"," ","d","a","t","e","t","i","m","e",".","d","a","t","e","t","i","m","e","(",")",","," ","'","b","o","d","y","'",":"," ","'">>
ReprProject == <<"'",","," ","'","p","r","o","j","e","c","t","'",":"," ","'">>
ReprEnd == <<"'","}">>
StrOfMessage(m) == ReprTime \o m.body \o ReprProject \o m.project \o ReprEnd

\* timedelta.seconds of an age in seconds: the days are a separate field.
TimedeltaSeconds(age) == age % 86400

\* 60 * 5
WindowSeconds == 300

\* One iteration of the loop of cache_full on the flags [cpu, gpu].
CacheFullMessage(uppered_project, message, flags) ==
    LET body == Upper(message.body)
        cpuSignal == \/ Contains(body, CpuJobCacheFull)
                     \/ Contains(body, DontNeedJobCacheFull)
    IN  IF ~Contains(Upper(StrOfMessage(message)), uppered_project) THEN flags
        ELSE IF TimedeltaSeconds(message.age) > WindowSeconds THEN flags
        ELSE IF Contains(body, NoNewTasksViaManager) THEN flags
        ELSE IF uppered_project # Upper(message.project) THEN flags
        ELSE IF Contains(body, DontNeed)
             THEN [cpu |-> flags.cpu \/ cpuSignal,
                   gpu |-> \/ flags.gpu
                           \/ ~Contains(body, Gpu)
                           \/ Contains(body, GpuJobCacheFull)
                           \/ Contains(body, GpusNotUsable)]
             ELSE [cpu |-> flags.cpu \/ cpuSignal, gpu |-> flags.gpu]

RECURSIVE CacheFullScan(_, _, _)
CacheFullScan(uppered_project, messages, flags) ==
    IF messages = <<>> THEN flags
    ELSE CacheFullScan(uppered_project, Tail(messages),
                       CacheFullMessage(uppered_project, Head(messages), flags))

\* cache_full(project_name, messages)
cache_full(project_name, messages) ==
    LET flags == CacheFullScan(Upper(project_name), messages,
                               [cpu |-> FALSE, gpu |-> FALSE])
    IN  flags.cpu /\ flags.gpu

\* Longest message list explored.
MaxMessages == 2

\* Sample projects (one name contains the other), bodies and ages in seconds
\* (at the window's edge, just past it, a day and ten seconds).
LogProjects == { <<"P","a">>, <<"x","p","a">> }
QueriedProjects == { <<"p","a">> }
LogBodies == {
    <<"C","P","U",":"," ","j","o","b"," ","c","a","c","h","e"," ","f","u","l","l">>,
    <<"N","o","t"," ","r","e","q","u","e","s","t","i","n","g"," ","t","a","s","k","s",":"," ","d","o","n","'","t"," ","n","e","e","d"," ","(","j","o","b"," ","c","a","c","h","e"," ","f","u","l","l",")">>,
    <<"G","P","U",":"," ","J","O","B"," ","C","A","C","H","E"," ","F","U","L","L">>,
    <<"N","o","t"," ","r","e","q","u","e","s","t","i","n","g"," ","t","a","s","k","s",":"," ","d","o","n","'","t"," ","n","e","e","d"," ","(",")">>,
    <<"N","o","t"," ","r","e","q","u","e","s","t","i","n","g"," ","t","a","s","k","s",":"," ","\"","n","o"," ","n","e","w"," ","t","a","s","k","s","\""," ","r","e","q","u","e","s","t","e","d"," ","v","i","a"," ","m","a","n","a","g","e","r">>,
    <<"N","o","t"," ","r","e","q","u","e","s","t","i","n","g"," ","t","a","s","k","s",":"," ","d","o","n","'","t"," ","n","e","e","d"," ","(","C","P","U",":"," ","j","o","b"," ","c","a","c","h","e"," ","f","u","l","l",";"," ","N","V","I","D","I","A"," ","G","P","U",":"," ","j","o","b"," ","c","a","c","h","e"," ","f","u","l","l",")">>,
    <<"G","P","U","s"," ","n","o","t"," ","u","s","a","b","l","e">> }
LogAges == {300, 301, 86410}
LogMessages == [age : LogAges, project : LogProjects, body : LogBodies]
LogLists == UNION {[1..n -> LogMessages] : n \in 0..MaxMessages}

LogInit ==
    /\ logOp = "none"
    /\ logProject = <<>>
    /\ logMessages = <<>>
    /\ logResult = FALSE

\* cache_full(project_name, messages) is called on a log excerpt.
CacheFull ==
    /\ logOp = "none"
    /\ \E project_name \in QueriedProjects, messages \in LogLists :
          /\ logProject' = project_name
          /\ logMessages' = messages
          /\ logResult' = cache_full(project_name, messages)
    /\ logOp' = "cache_full"
    /\ UNCHANGED logOthers

(***************************************************************************)
(* Log state classifier: BoincClientConnection.project_backoff             *)
(***************************************************************************)

\* The phrase lists of project_backoff, in list order.
PositivePhrases == <<
    <<"P","R","O","J","E","C","T"," ","H","A","S"," ","N","O"," ","T","A","S","K","S"," ","A","V","A","I","L","A","B","L","E">>,
    <<"S","C","H","E","D","U","L","E","R"," ","R","E","Q","U","E","S","T"," ","F","A","I","L","E","D">>,
    <<"N","O"," ","T","A","S","K","S"," ","S","E","N","T">>,
    <<"L","A","S","T"," ","R","E","Q","U","E","S","T"," ","T","O","O"," ","R","E","C","E","N","T">>,
    <<"A","N"," ","N","V","I","D","I","A"," ","G","P","U"," ","I","S"," ","R","E","Q","U","I","R","E","D"," ","T","O"," ","R","U","N"," ","T","A","S","K","S"," ","F","O","R"," ","T","H","I","S"," ","P","R","O","J","E","C","T">> >>
NegativePhrases == <<
    <<"N","O","T"," ","R","E","Q","U","E","S","T","I","N","G"," ","T","A","S","K","S",":"," ","D","O","N","'","T"," ","N","E","E","D">>,
    <<"S","T","A","R","T","E","D"," ","D","O","W","N","L","O","A","D">>,
    <<"F","I","N","I","S","H","E","D"," ","D","O","W","N","L","O","A","D"," ","O","F">> >>
IgnorePhrases == <<
    <<"W","O","R","K"," ","F","E","T","C","H"," ","R","E","S","U","M","E","D"," ","B","Y"," ","U","S","E","R">>,
    <<"U","P","D","A","T","E"," ","R","E","Q","U","E","S","T","E","D"," ","B","Y"," ","U","S","E","R">>,
    <<"W","O","R","K"," ","F","E","T","C","H"," ","S","U","S","P","E","N","D","E","D"," ","B","Y"," ","U","S","E","R">>,
    <<"S","T","A","R","T","I","N","G"," ","T","A","S","K">>,
    <<"R","E","Q","U","E","S","T","I","N","G"," ","N","E","W"," ","T","A","S","K","S">>,
    <<"S","E","N","D","I","N","G"," ","S","C","H","E","D","U","L","E","R"," ","R","E","Q","U","E","S","T">>,
    <<"S","C","H","E","D","U","L","E","R"," ","R","E","Q","U","E","S","T"," ","C","O","M","P","L","E","T","E","D">>,
    <<"S","T","A","R","T","E","D"," ","U","P","L","O","A","D">>,
    <<"F","I","N","I","S","H","E","D"," ","U","P","L","O","A","D">>,
    <<"M","A","S","T","E","R"," ","F","I","L","E"," ","D","O","W","N","L","O","A","D"," ","S","U","C","C","E","E","D","E","D">>,
    <<"F","E","T","C","H","I","N","G"," ","S","C","H","E","D","U","L","E","R"," ","L","I","S","T">>,
    <<"U","P","G","R","A","D","E"," ","T","O"," ","T","H","E"," ","L","A","T","E","S","T"," ","D","R","I","V","E","R"," ","T","O"," ","P","R","O","C","E","S","S"," ","T","A","S","K","S"," ","U","S","I","N","G"," ","Y","O","U","R"," ","C","O","M","P","U","T","E","R","'","S"," ","G","P","U">>,
    <<"N","O","T"," ","S","T","A","R","T","E","D"," ","A","N","D"," ","D","E","A","D","L","I","N","E"," ","H","A","S"," ","P","A","S","S","E","D">>,
    <<"P","R","O","J","E","C","T"," ","R","E","Q","U","E","S","T","E","D"," ","D","E","L","A","Y"," ","O","F">> >>

\* Words of the composite rules.
Got == <<"G","O","T">>
NewTasks == <<"N","E","W"," ","T","A","S","K","S">>
Reporting == <<"R","E","P","O","R","T","I","N","G">>
CompletedTasks == <<"C","O","M","P","L","E","T","E","D"," ","T","A","S","K","S">>
ComputationForTask == <<"C","O","M","P","U","T","A","T","I","O","N"," ","F","O","R"," ","T","A","S","K">>
Finished == <<"F","I","N","I","S","H","E","D">>
Needs == <<"N","E","E","D","S">>
ButOnly == <<"B","U","T"," ","O","N","L","Y">>
IsAvailableForUse == <<"I","S"," ","A","V","A","I","L","A","B","L","E"," ","F","O","R"," ","U","S","E">>

\* Some phrase of the list occurs in the text.
AnyPhraseIn(phrases, text) == \E i \in DOMAIN phrases : Contains(text, phrases[i])

\* backoff_ignore_message(message, ignore_phrases)
backoff_ignore_message(message, ignore_phrases) ==
    LET uppered == Upper(message.body) IN
      \/ AnyPhraseIn(ignore_phrases, uppered)
      \/ Contains(uppered, Got) /\ Contains(uppered, NewTasks)
      \/ Contains(uppered, Reporting) /\ Contains(uppered, CompletedTasks)
      \/ Contains(uppered, ComputationForTask) /\ Contains(uppered, Finished)

\* One iteration of the loop of project_backoff: "continue", "true" (return
\* True) or "false" (return False).
BackoffMessage(uppered_project, message) ==
    LET uppered_body == Upper(message.body)
        uppered_message == Upper(StrOfMessage(message))
    IN  IF ~Contains(uppered_message, uppered_project) THEN "continue"
        ELSE IF TimedeltaSeconds(message.age) > WindowSeconds THEN "continue"
        ELSE IF backoff_ignore_message(message, IgnorePhrases) THEN "continue"
        ELSE IF AnyPhraseIn(PositivePhrases, uppered_body) THEN "true"
        ELSE IF AnyPhraseIn(NegativePhrases, uppered_body) THEN "false"
        ELSE IF /\ Contains(uppered_body, Needs)
                /\ Contains(uppered_body, ButOnly)
                /\ Contains(uppered_body, IsAvailableForUse) THEN "true"
        ELSE "continue"

\* project_backoff(project_name, messages): the first message that returns
\* decides; False when the loop ends.
RECURSIVE BackoffScan(_, _)
BackoffScan(uppered_project, messages) ==
    IF messages = <<>> THEN FALSE
    ELSE LET v == BackoffMessage(uppered_project, Head(messages)) IN
         IF v = "continue" THEN BackoffScan(uppered_project, Tail(messages))
         ELSE v = "true"

project_backoff(project_name, messages) == BackoffScan(Upper(project_name), messages)

\* Sample bodies for project_backoff: one per rule, and bodies matching two
\* rules at once.
BackoffBodies == {
    <<"P","r","o","j","e","c","t"," ","h","a","s"," ","n","o"," ","t","a","s","k","s"," ","a","v","a","i","l","a","b","l","e">>,
    <<"N","o","t"," ","r","e","q","u","e","s","t","i","n","g"," ","t","a","s","k","s",":"," ","d","o","n","'","t"," ","n","e","e","d"," ","(",")">>,
    <<"S","e","n","d","i","n","g"," ","s","c","h","e","d","u","l","e","r"," ","r","e","q","u","e","s","t">>,
    <<"S","c","h","e","d","u","l","e","r"," ","r","e","q","u","e","s","t"," ","c","o","m","p","l","e","t","e","d",":"," ","n","o"," ","t","a","s","k","s"," ","s","e","n","t">>,
    <<"n","e","e","d","s"," ","9"," ","M","B"," ","b","u","t"," ","o","n","l","y"," ","1"," ","M","B"," ","i","s"," ","a","v","a","i","l","a","b","l","e"," ","f","o","r"," ","u","s","e">>,
    <<"M","e","s","s","a","g","e"," ","f","r","o","m"," ","s","e","r","v","e","r">>,
    <<"N","o"," ","t","a","s","k","s"," ","s","e","n","t",";"," ","s","t","a","r","t","e","d"," ","d","o","w","n","l","o","a","d">>,
    <<"S","t","a","r","t","e","d"," ","d","o","w","n","l","o","a","d",";"," ","n","e","e","d","s"," ","9"," ","M","B"," ","b","u","t"," ","o","n","l","y"," ","1"," ","M","B"," ","i","s"," ","a","v","a","i","l","a","b","l","e"," ","f","o","r"," ","u","s","e">> }
BackoffMessages == [age : LogAges, project : LogProjects, body : BackoffBodies]
BackoffLists == UNION {[1..n -> BackoffMessages] : n \in 0..MaxMessages}

\* project_backoff(project_name, messages) is called on a log excerpt.
ProjectBackoff ==
    /\ logOp = "none"
    /\ \E project_name \in QueriedProjects, messages \in BackoffLists :
          /\ logProject' = project_name
          /\ logMessages' = messages
          /\ logResult' = project_backoff(project_name, messages)
    /\ logOp' = "project_backoff"
    /\ UNCHANGED logOthers

\* The caller takes the verdict; the next call may start.
LogFinish ==
    /\ logOp # "none"
    /\ logOp' = "none"
    /\ logProject' = <<>>
    /\ logMessages' = <<>>
    /\ logResult' = FALSE
    /\ UNCHANGED logOthers

LogNext ==
    \/ CacheFull
    \/ ProjectBackoff
    \/ LogFinish

(***************************************************************************)
(* Magnitude efficiency selection (StatsHelper.py)                         *)
(***************************************************************************)

\* combinedstats is modelled as the sequence of its items in dict order;
\* each item carries the project URL and the two COMPILED_STATS fields the
\* selection reads, AVGMAGPERHOUR (a rational) and TOTALTASKS.
StatsOf(combinedstats, project_url) ==
    combinedstats[CHOOSE i \in DOMAIN combinedstats :
                      combinedstats[i].url = project_url]

Keys(combinedstats) == [i \in DOMAIN combinedstats |-> combinedstats[i].url]

EligibleTasks == 10

is_project_eligible(project_url, project_stats, ignored_projects) ==
    IF project_url \in ignored_projects THEN FALSE
    ELSE project_stats.TOTALTASKS >= EligibleTasks

NoProject == "None"

get_first_non_ignored_project(project_list, ignored_projects) ==
    LET free == {i \in DOMAIN project_list : project_list[i] \notin ignored_projects}
    IN  IF free = {} THEN NoProject
        ELSE project_list[CHOOSE i \in free : \A j \in free : i <= j]

\* The first loop: a later project takes the lead only with a strictly
\* greater AVGMAGPERHOUR and only if it is eligible.
RECURSIVE HighestScan(_, _, _, _)
HighestScan(combinedstats, ignored_projects, i, highest_project) ==
    IF i > Len(combinedstats) THEN highest_project
    ELSE LET project_stats == combinedstats[i]
             current_mag_per_hour == project_stats.AVGMAGPERHOUR
             highest_mag_per_hour == StatsOf(combinedstats, highest_project).AVGMAGPERHOUR
             takes == /\ project_stats.url \notin ignored_projects
                      /\ RatLess(highest_mag_per_hour, current_mag_per_hour)
                      /\ is_project_eligible(project_stats.url, project_stats,
                                             ignored_projects)
         IN  HighestScan(combinedstats, ignored_projects, i + 1,
                         IF takes THEN project_stats.url ELSE highest_project)

minimum_for_inclusion_scaled(highest_avg_mag, percentdiff) ==
    RatMul(highest_avg_mag, Rat(percentdiff, 100))

minimum_for_inclusion(highest_avg_mag, percentdiff) ==
    RatSub(highest_avg_mag, RatMul(highest_avg_mag, Rat(percentdiff, 100)))

\* The second loop: the other projects within percentdiff of the leader.
RECURSIVE InclusionScan(_, _, _, _, _)
InclusionScan(combinedstats, ignored_projects, percentdiff, highest_project, i) ==
    IF i > Len(combinedstats) THEN <<>>
    ELSE LET project_stats == combinedstats[i]
             current_avg_mag == project_stats.AVGMAGPERHOUR
             highest_avg_mag == StatsOf(combinedstats, highest_project).AVGMAGPERHOUR
             rest == InclusionScan(combinedstats, ignored_projects, percentdiff,
                                   highest_project, i + 1)
         IN  IF project_stats.url = highest_project THEN rest
             ELSE IF project_stats.url \in ignored_projects THEN rest
             ELSE IF /\ ~RatLess(current_avg_mag,
                                 minimum_for_inclusion(highest_avg_mag, percentdiff))
                     /\ is_project_eligible(project_stats.url, project_stats,
                                            ignored_projects)
                     /\ current_avg_mag # Zero
                  THEN <<project_stats.url>> \o rest
             ELSE rest

LeaderAlone(combinedstats, highest_project, return_list) ==
    IF /\ Len(return_list) = 1
       /\ StatsOf(combinedstats, highest_project).TOTALTASKS < EligibleTasks
    THEN <<>>
    ELSE return_list

get_most_mag_efficient_projects(combinedstats, ignored_projects, percentdiff) ==
    LET first == get_first_non_ignored_project(Keys(combinedstats), ignored_projects)
    IN  IF first = NoProject THEN <<>>
        ELSE LET highest_project == HighestScan(combinedstats, ignored_projects,
                                                1, first)
                 return_list == <<highest_project>> \o
                                InclusionScan(combinedstats, ignored_projects,
                                              percentdiff, highest_project, 1)
             IN  LeaderAlone(combinedstats, highest_project, return_list)

\* Inputs: up to MaxProjects distinct projects in any dict order.
MaxProjects == 3
EffNames == <<"A", "B", "C", "D", "E">>
EffProjects == {EffNames[i] : i \in 1..MaxProjects}
EffMags == {Zero, Rat(91, 100), One}
EffTasks == {9, 10}
EffItems == [url : EffProjects, AVGMAGPERHOUR : EffMags, TOTALTASKS : EffTasks]
CombinedStats ==
    UNION {{cs \in [1..n -> EffItems] :
              \A i, j \in 1..n : cs[i].url = cs[j].url => i = j} : n \in 0..MaxProjects}
IgnoredSets == {{}, {"C"}}
PercentDiffs == {0, 1, 10, 100}

EffInit ==
    /\ effOp = "none"
    /\ effStats = <<>>
    /\ effIgnored = {}
    /\ effPercent = 10
    /\ effResult = <<>>

GetMostMagEfficientProjects ==
    /\ effOp = "none"
    /\ \E cs \in CombinedStats, ign \in IgnoredSets, pd \in PercentDiffs :
          /\ effStats' = cs
          /\ effIgnored' = ign
          /\ effPercent' = pd
          /\ effResult' = get_most_mag_efficient_projects(cs, ign, pd)
    /\ effOp' = "get_most_mag_efficient_projects"
    /\ UNCHANGED effOthers

EffFinish ==
    /\ effOp # "none"
    /\ effOp' = "none"
    /\ effStats' = <<>>
    /\ effIgnored' = {}
    /\ effPercent' = 10
    /\ effResult' = <<>>
    /\ UNCHANGED effOthers

EffNext ==
    \/ GetMostMagEfficientProjects
    \/ EffFinish

(***************************************************************************)
(* Priority ordering (StatsHelper.py, utils.py)                            *)
(***************************************************************************)

\* in_list(my_str, list_): the canonical form of my_str is a substring of
\* some upper-cased item.
in_list(my_str, list_) ==
    LET search_str == ResolveUrlDatabase(my_str)
    IN  \E item \in list_ : Contains(Upper(item), search_str)

\* round(x, 2) of a rational, ties to the even hundredth.
Round2(x) ==
    LET num == x[1] * 100
        q == num \div x[2]
        twice == 2 * (num - q * x[2])
        n == IF twice < x[2] THEN q
             ELSE IF twice > x[2] THEN q + 1
             ELSE IF q % 2 = 0 THEN q ELSE q + 1
    IN  Rat(n, 100)

BenchmarkWeight == 1
WeightScale == 1000
SecondsPerHour == 3600

\* combined_stats is a function from project keys to either NoStats (the
\* key is absent) or the two COMPILED_STATS fields read here.
NoStats == [XDAYWALLTIME |-> -1, TOTALWALLTIME |-> -1]

RECURSIVE SumField(_, _, _)
SumField(combined_stats, keys, field) ==
    IF keys = {} THEN 0
    ELSE LET k == CHOOSE x \in keys : TRUE
         IN  (IF combined_stats[k] = NoStats THEN 0
              ELSE IF field = "XDAYWALLTIME" THEN combined_stats[k].XDAYWALLTIME
              ELSE combined_stats[k].TOTALWALLTIME)
             + SumField(combined_stats, keys \ {k}, field)

PriorityFromBasis(combined_stats, project, weight, total_xday_time, total_time) ==
    LET combined_stats_extract == combined_stats[project]
        basis == IF weight = BenchmarkWeight THEN total_time ELSE total_xday_time
        existing_time ==
            IF combined_stats_extract = NoStats THEN basis
            ELSE IF weight = BenchmarkWeight
                 THEN combined_stats_extract.TOTALWALLTIME
                 ELSE combined_stats_extract.XDAYWALLTIME
        target_time == RatSub(Rat(existing_time, 1),
                              RatMul(Rat(basis, 1), Rat(weight, WeightScale)))
    IN  Round2(RatDiv(target_time, Rat(SecondsPerHour, 1)))

\* The deficit of one weighted, attached project, in hours.
Priority(combined_stats, project, weight, total_xday_time, total_time) ==
    LET combined_stats_extract == combined_stats[project]
        existing_time ==
            IF combined_stats_extract = NoStats THEN 0
            ELSE IF weight = BenchmarkWeight
                 THEN combined_stats_extract.TOTALWALLTIME
                 ELSE combined_stats_extract.XDAYWALLTIME
        basis == IF weight = BenchmarkWeight THEN total_time ELSE total_xday_time
        target_time == RatSub(Rat(existing_time, 1),
                              RatMul(Rat(basis, 1), Rat(weight, WeightScale)))
    IN  Round2(RatDiv(target_time, Rat(SecondsPerHour, 1)))

\* The loop over project_weights builds priority_dict, kept here as the
\* sequence of its items in insertion order.
RECURSIVE PriorityDict(_, _, _, _)
PriorityDict(combined_stats, project_weights, attached_projects, i) ==
    IF i > Len(project_weights) THEN <<>>
    ELSE LET project == project_weights[i].project
             weight == project_weights[i].weight
             rest == PriorityDict(combined_stats, project_weights,
                                  attached_projects, i + 1)
         IN  IF ~in_list(project, attached_projects) THEN rest
             ELSE << [project |-> project,
                      priority |-> Priority(combined_stats, project, weight,
                                     SumField(combined_stats, DOMAIN combined_stats,
                                              "XDAYWALLTIME"),
                                     SumField(combined_stats, DOMAIN combined_stats,
                                              "TOTALWALLTIME"))] >> \o rest

\* sorted(priority_dict, key=priority_dict.get): a stable sort of the keys.
RECURSIVE InsertSorted(_, _)
InsertSorted(sorted, item) ==
    IF sorted = <<>> THEN <<item>>
    ELSE IF RatLess(item.priority, Head(sorted).priority)
         THEN <<item>> \o sorted
         ELSE <<Head(sorted)>> \o InsertSorted(Tail(sorted), item)

RECURSIVE SortedItems(_)
SortedItems(items) ==
    IF items = <<>> THEN <<>>
    ELSE InsertSorted(SortedItems(SubSeq(items, 1, Len(items) - 1)),
                      items[Len(items)])

KeysInInsertionOrder(priority_dict) ==
    [i \in DOMAIN priority_dict |-> priority_dict[i].project]

SortedKeys(priority_dict) ==
    LET sorted == SortedItems(priority_dict)
    IN  [i \in DOMAIN sorted |-> sorted[i].project]

\* Returns the ordering and the deficit map.
get_highest_priority_project(combined_stats, project_weights, attached_projects) ==
    LET priority_dict == PriorityDict(combined_stats, project_weights,
                                      attached_projects, 1)
    IN  IF Len(priority_dict) > 0
        THEN <<SortedKeys(priority_dict), priority_dict>>
        ELSE << <<>>, <<>> >>

\* Inputs: MaxWeighted projects, each weighted or not, attached or not, with
\* or without statistics.
MaxWeighted == 2
PrioKeys == << <<"A",".","B">>, <<"C",".","D">>, <<"E",".","F">>, <<"G",".","H">> >>
PrioUrls == << <<"h","t","t","p","s",":","/","/","a",".","b","/">>,
               <<"h","t","t","p",":","/","/","w","w","w",".","c",".","d">>,
               <<"h","t","t","p","s",":","/","/","e",".","f","/">>,
               <<"G",".","H">> >>
PrioProjects == {PrioKeys[i] : i \in 1..MaxWeighted}
PrioWeights == {1, 500}
PrioStats == { NoStats,
               [XDAYWALLTIME |-> 0, TOTALWALLTIME |-> 3600],
               [XDAYWALLTIME |-> 3600, TOTALWALLTIME |-> 3600],
               [XDAYWALLTIME |-> 3600, TOTALWALLTIME |-> 36000] }
PrioWeightItems == [project : PrioProjects, weight : PrioWeights]
ProjectWeights ==
    UNION {{pw \in [1..n -> PrioWeightItems] :
              \A i, j \in 1..n : pw[i].project = pw[j].project => i = j}
           : n \in 0..MaxWeighted}
AttachedSets == SUBSET {PrioUrls[i] : i \in 1..MaxWeighted}

PrioInit ==
    /\ prioOp = "none"
    /\ prioStats = [p \in PrioProjects |-> NoStats]
    /\ prioWeights = <<>>
    /\ prioAttached = {}
    /\ prioList = <<>>
    /\ prioDict = <<>>

GetHighestPriorityProject ==
    /\ prioOp = "none"
    /\ \E cs \in [PrioProjects -> PrioStats], pw \in ProjectWeights,
          att \in AttachedSets :
          LET ret == get_highest_priority_project(cs, pw, att)
          IN  /\ prioStats' = cs
              /\ prioWeights' = pw
              /\ prioAttached' = att
              /\ prioList' = ret[1]
              /\ prioDict' = ret[2]
    /\ prioOp' = "get_highest_priority_project"
    /\ UNCHANGED prioOthers

PrioFinish ==
    /\ prioOp # "none"
    /\ prioOp' = "none"
    /\ prioStats' = [p \in PrioProjects |-> NoStats]
    /\ prioWeights' = <<>>
    /\ prioAttached' = {}
    /\ prioList' = <<>>
    /\ prioDict' = <<>>
    /\ UNCHANGED prioOthers

PrioNext ==
    \/ GetHighestPriorityProject
    \/ PrioFinish

(***************************************************************************)
(* Credit averages (StatsHelper.py)                                        *)
(***************************************************************************)

\* One project's entry of my_stats: CREDIT_HISTORY as the sequence of its
\* CREDITAWARDED values and WU_HISTORY as the sequence of its date buckets,
\* each with the age in days of its date.  Times are in seconds.
RollingWeightWindow == 60

RECURSIVE SumBuckets(_, _)
SumBuckets(wu_history, field) ==
    IF wu_history = <<>> THEN 0
    ELSE LET b == Head(wu_history)
         IN  (CASE field = "TOTALWUS" -> b.TOTALWUS
                [] field = "total_wall_time" -> b.total_wall_time
                [] field = "total_cpu_time" -> b.total_cpu_time
                [] field = "x_day_wall_time" ->
                       IF b.days_ago <= RollingWeightWindow
                       THEN b.total_wall_time ELSE 0)
             + SumBuckets(Tail(wu_history), field)

Hours(seconds) == Rat(seconds, 3600)

\* The branch on total_wus: the four derived fields, or the
\* ZeroDivisionError raised by total_credit / total_wall_time.
NoDerived ==
    [AVGWALLTIME |-> Zero, AVGCPUTIME |-> Zero,
     AVGCREDITPERTASK |-> Zero, AVGCREDITPERHOUR |-> Zero]

Derived(total_credit, total_wus, total_wall_time, total_cpu_time) ==
    IF total_wus = 0 THEN [raised |-> FALSE, fields |-> NoDerived]
    ELSE IF total_wall_time = 0 THEN [raised |-> TRUE, fields |-> NoDerived]
    ELSE [raised |-> FALSE,
          fields |->
            [AVGWALLTIME |-> RatDiv(Hours(total_wall_time), Rat(total_wus, 1)),
             AVGCPUTIME |-> RatDiv(Hours(total_cpu_time), Rat(total_wus, 1)),
             AVGCREDITPERTASK |-> RatDiv(Rat(total_credit, 1), Rat(total_wus, 1)),
             AVGCREDITPERHOUR |-> RatDiv(Rat(total_credit, 1),
                                         Hours(total_wall_time))]]

NoCompiledStats ==
    [TOTALCREDIT |-> Zero, AVGWALLTIME |-> Zero, AVGCPUTIME |-> Zero,
     AVGCREDITPERTASK |-> Zero, TOTALTASKS |-> 0, TOTALWALLTIME |-> Zero,
     TOTALCPUTIME |-> Zero, AVGCREDITPERHOUR |-> Zero, XDAYWALLTIME |-> Zero]

\* Returns the compiled statistics of the project, or raised = TRUE when
\* the division error propagates to the caller.
calculate_credit_averages(credit_history, wu_history) ==
    LET total_credit == SumSeq(credit_history)
        total_wus == SumBuckets(wu_history, "TOTALWUS")
        total_wall_time == SumBuckets(wu_history, "total_wall_time")
        x_day_wall_time == SumBuckets(wu_history, "x_day_wall_time")
        total_cpu_time == SumBuckets(wu_history, "total_cpu_time")
        derived == Derived(total_credit, total_wus, total_wall_time, total_cpu_time)
    IN  IF derived.raised THEN [raised |-> TRUE, stats |-> NoCompiledStats]
        ELSE [raised |-> FALSE,
              stats |->
                [TOTALCREDIT |-> Rat(total_credit, 1),
                 AVGWALLTIME |-> derived.fields.AVGWALLTIME,
                 AVGCPUTIME |-> derived.fields.AVGCPUTIME,
                 AVGCREDITPERTASK |-> derived.fields.AVGCREDITPERTASK,
                 TOTALTASKS |-> total_wus,
                 TOTALWALLTIME |-> IF total_wus = 0 THEN Rat(total_wall_time, 1)
                                   ELSE Hours(total_wall_time),
                 TOTALCPUTIME |-> IF total_wus = 0 THEN Rat(total_cpu_time, 1)
                                  ELSE Hours(total_cpu_time),
                 AVGCREDITPERHOUR |-> derived.fields.AVGCREDITPERHOUR,
                 XDAYWALLTIME |-> IF total_wus = 0 THEN Rat(x_day_wall_time, 1)
                                  ELSE Hours(x_day_wall_time)]]

\* Inputs: at most MaxBuckets date buckets as parse_stats_file builds them
\* (each counts at least one task) and at most one credit entry.
MaxBuckets == 2
Buckets == [TOTALWUS : {1, 2}, total_wall_time : {0, 3600, 7200},
            total_cpu_time : {0, 1800}, days_ago : {10, 90}]
WuHistories == UNION {[1..n -> Buckets] : n \in 0..MaxBuckets}
CreditHistories == {<<>>, <<0>>, <<5>>}

AvgInit ==
    /\ avgOp = "none"
    /\ avgCredit = <<>>
    /\ avgWus = <<>>
    /\ avgOut = [raised |-> FALSE, stats |-> NoCompiledStats]

CalculateCreditAverages ==
    /\ avgOp = "none"
    /\ \E ch \in CreditHistories, wh \in WuHistories :
          /\ avgCredit' = ch
          /\ avgWus' = wh
          /\ avgOut' = calculate_credit_averages(ch, wh)
    /\ avgOp' = "calculate_credit_averages"
    /\ UNCHANGED avgOthers

AvgFinish ==
    /\ avgOp # "none"
    /\ avgOp' = "none"
    /\ avgCredit' = <<>>
    /\ avgWus' = <<>>
    /\ avgOut' = [raised |-> FALSE, stats |-> NoCompiledStats]
    /\ UNCHANGED avgOthers

AvgNext ==
    \/ CalculateCreditAverages
    \/ AvgFinish

(***************************************************************************)
(* URL resolution for BOINC RPC (StatsHelper.py)                           *)
(***************************************************************************)

\* The scheme and leading-www stripping done in both functions.
BoincStripped(original_uppered) ==
    LET u1 == Remove(original_uppered, HttpsWww)
        u2 == Remove(u1, HttpWww)
        u3 == Remove(u2, Https)
        u4 == Remove(u3, Http)
    IN  StripLeadingWww(u4)

NoMatch == <<"N","o","n","e">>

FirstMatch(uppered, projects) ==
    LET hits == {i \in DOMAIN projects : Contains(Upper(projects[i]), uppered)}
    IN  IF hits = {} THEN NoMatch
        ELSE projects[CHOOSE i \in hits : \A j \in hits : i <= j]

\* The body of _resolve_url_boinc_rpc: the attached set of the mode only.
ResolveAttached(original_uppered, known_attached_projects, known_attached_projects_dev, dev_mode) ==
    LET uppered == BoincStripped(original_uppered)
    IN  IF dev_mode THEN FirstMatch(uppered, known_attached_projects_dev)
        ELSE FirstMatch(uppered, known_attached_projects)

\* functools.cache on _resolve_url_boinc_rpc: both EquivalentWrapper
\* arguments hash to 0 and compare equal to any other wrapper, so the key
\* is the upper-cased URL and dev_mode only.
NotCached == <<"-">>

CacheKey(original_uppered, dev_mode) == <<original_uppered, dev_mode>>

_resolve_url_boinc_rpc(cache, original_uppered, known_attached_projects, known_attached_projects_dev, dev_mode) ==
    IF cache[CacheKey(original_uppered, dev_mode)] # NotCached
    THEN cache[CacheKey(original_uppered, dev_mode)]
    ELSE ResolveAttached(original_uppered, known_attached_projects,
                         known_attached_projects_dev, dev_mode)

FoldingAtHome == <<"F","O","L","D","I","N","G","A","T","H","O","M","E">>

resolve_url_boinc_rpc(cache, url, known_attached_projects, known_attached_projects_dev, known_boinc_projects, dev_mode) ==
    LET original_uppered == Upper(url)
        known_attached_project ==
            _resolve_url_boinc_rpc(cache, original_uppered, known_attached_projects,
                                   known_attached_projects_dev, dev_mode)
        known_boinc_project ==
            FirstMatch(BoincStripped(original_uppered), known_boinc_projects)
    IN  IF Contains(original_uppered, FoldingAtHome) THEN url
        ELSE IF known_attached_project # NoMatch THEN known_attached_project
        ELSE IF known_boinc_project # NoMatch THEN known_boinc_project
        ELSE url

\* Inputs: project lists in iteration order, of at most MaxListLen entries.
MaxListLen == 2
BoincUrls == { <<"a",".","b">>,
               <<"h","t","t","p",":","/","/","w","w","w",".","C",".","d">>,
               <<"e",".","f">>,
               <<"f","o","l","d","i","n","g","a","t","h","o","m","e">> }
AttachedPool == { <<"h","t","t","p","s",":","/","/","a",".","b">>,
                  <<"h","t","t","p",":","/","/","w","w","w",".","c",".","d">> }
DevPool == { <<"h","t","t","p",":","/","/","d","e","v",".","A",".","b">> }
KnownPool == { <<"h","t","t","p",":","/","/","a",".","b","/","k">>,
               <<"h","t","t","p","s",":","/","/","c",".","d">> }
ListsOver(pool) ==
    UNION {{l \in [1..n -> pool] : \A i, j \in 1..n : l[i] = l[j] => i = j}
           : n \in 0..MaxListLen}
BoincKeys == {CacheKey(Upper(u), d) : u \in BoincUrls, d \in BOOLEAN}

BurlInit ==
    /\ burlOp = "none"
    /\ burlCache = [k \in BoincKeys |-> NotCached]
    /\ burlUrl = <<>>
    /\ burlAttached = <<>>
    /\ burlDev = <<>>
    /\ burlKnown = <<>>
    /\ burlDevMode = FALSE
    /\ burlOut = <<>>

ResolveUrlBoincRpc ==
    /\ burlOp = "none"
    /\ \E url \in BoincUrls, att \in ListsOver(AttachedPool),
          dev \in ListsOver(DevPool), known \in ListsOver(KnownPool),
          dev_mode \in BOOLEAN :
          /\ burlUrl' = url
          /\ burlAttached' = att
          /\ burlDev' = dev
          /\ burlKnown' = known
          /\ burlDevMode' = dev_mode
          /\ burlOut' = resolve_url_boinc_rpc(burlCache, url, att, dev, known, dev_mode)
          /\ burlCache' =
                IF Contains(Upper(url), FoldingAtHome) THEN burlCache
                ELSE [burlCache EXCEPT ![CacheKey(Upper(url), dev_mode)] =
                         _resolve_url_boinc_rpc(burlCache, Upper(url), att, dev,
                                                dev_mode)]
    /\ burlOp' = "resolve_url_boinc_rpc"
    /\ UNCHANGED burlOthers

BurlFinish ==
    /\ burlOp # "none"
    /\ burlOp' = "none"
    /\ burlUrl' = <<>>
    /\ burlAttached' = <<>>
    /\ burlDev' = <<>>
    /\ burlKnown' = <<>>
    /\ burlDevMode' = FALSE
    /\ burlOut' = <<>>
    /\ UNCHANGED burlCache
    /\ UNCHANGED burlOthers

BurlNext ==
    \/ ResolveUrlBoincRpc
    \/ BurlFinish

(***************************************************************************)
(* get_project_mag_ratios_from_response called on its own                  *)
(***************************************************************************)

RatioInit ==
    /\ ratioOp = "none"
    /\ ratioReply = ErrorReply
    /\ ratioResolver = <<>>
    /\ ratioLookback = 0
    /\ ratioOut = [raised |-> FALSE, table |-> <<>>]

\* One call with the "result" of a superblocks reply, a project directory
\* and a lookback period.
GetProjectMagRatiosFromResponse ==
    /\ ratioOp = "none"
    /\ \E reply \in {ErrorReply} \cup SeriesReplies, resolver \in Resolvers,
          lookback \in Lookbacks :
          /\ ratioReply' = reply
          /\ ratioResolver' = resolver
          /\ ratioLookback' = lookback
          /\ ratioOut' = FromResponse(reply, resolver, lookback)
    /\ ratioOp' = "get_project_mag_ratios_from_response"
    /\ UNCHANGED ratioOthers

RatioFinish ==
    /\ ratioOp # "none"
    /\ ratioOp' = "none"
    /\ ratioReply' = ErrorReply
    /\ ratioResolver' = <<>>
    /\ ratioLookback' = 0
    /\ ratioOut' = [raised |-> FALSE, table |-> <<>>]
    /\ UNCHANGED ratioOthers

RatioNext ==
    \/ GetProjectMagRatiosFromResponse
    \/ RatioFinish

(***************************************************************************)
(* Statistics aggregation: StatsHelper.config_files_to_stats,              *)
(* stat_file_to_list and parse_stats_file                                  *)
(***************************************************************************)

JobLogPrefix == <<"j","o","b","_","l","o","g","_">>
TxtSuffix == <<".","t","x","t">>
StatisticsPrefix == <<"s","t","a","t","i","s","t","i","c","s","_">>
XmlSuffix == <<".","x","m","l">>
JobLogMark == <<"j","o","b","_","l","o","g">>

\* s.replace("_", "/")
UnderscoresToSlashes(s) == [i \in DOMAIN s |-> IF s[i] = "_" THEN "/" ELSE s[i]]

project_url_from_stats_file(statsfilename) ==
    ResolveUrlDatabase(
        UnderscoresToSlashes(Remove(Remove(statsfilename, JobLogPrefix), TxtSuffix)))

project_url_from_credit_history_file(filename) ==
    ResolveUrlDatabase(
        UnderscoresToSlashes(Remove(Remove(filename, StatisticsPrefix), XmlSuffix)))

\* A job log is a sequence of lines.  A line either matches the line
\* grammar, giving a record of its STARTTIME, WALLTIME and CPUTIME fields,
\* or it does not.  The grammar takes (\d*) for the start time, so a
\* matched record can carry an empty start time, written EmptyField.
EmptyField == -1
NoMatchLine == [matched |-> FALSE, STARTTIME |-> 0, WALLTIME |-> 0, CPUTIME |-> 0]

\* stat_file_to_list: the records of the lines that match, in order.
stat_file_to_list(content) == SelectSeq(content, LAMBDA line : line.matched)

\* strftime("%m-%d-%Y") of a timestamp, as a day number.
DaySeconds == 86400
DateOf(timestamp) == timestamp \div DaySeconds

\* dict[key] = value on a dict kept as a function.
Put(dict, key, value) ==
    [k \in (DOMAIN dict) \cup {key} |-> IF k = key THEN value ELSE dict[k]]

NewBucket == [TOTALWUS |-> 0, total_wall_time |-> 0, total_cpu_time |-> 0]

RECURSIVE WuHistoryScan(_, _)
WuHistoryScan(stat_list, wu_history) ==
    IF stat_list = <<>> THEN wu_history
    ELSE LET wu == Head(stat_list)
             date == DateOf(wu.STARTTIME)
             old == IF date \in DOMAIN wu_history THEN wu_history[date] ELSE NewBucket
         IN  WuHistoryScan(Tail(stat_list),
                 Put(wu_history, date,
                     [TOTALWUS |-> old.TOTALWUS + 1,
                      total_wall_time |-> old.total_wall_time + wu.WALLTIME,
                      total_cpu_time |-> old.total_cpu_time + wu.CPUTIME]))

\* parse_stats_file: one try block around the whole loop, so a float()
\* that raises on any record makes the function return {}.
parse_stats_file(stat_list) ==
    IF \E i \in DOMAIN stat_list : stat_list[i].STARTTIME = EmptyField THEN <<>>
    ELSE WuHistoryScan(stat_list, <<>>)

Template == [CREDIT_HISTORY |-> <<>>, WU_HISTORY |-> <<>>]

WithProject(return_stats, project_url) ==
    IF project_url \in DOMAIN return_stats THEN return_stats
    ELSE Put(return_stats, project_url, Template)

\* return_stats[project_url]["WU_HISTORY"] = parsed
SetWuHistory(entry, parsed) == [entry EXCEPT !.WU_HISTORY = parsed]

\* The loop over the job logs.
RECURSIVE StatsFilesScan(_, _)
StatsFilesScan(stats_files, return_stats) ==
    IF stats_files = <<>> THEN return_stats
    ELSE LET statsfile == Head(stats_files)
             project_url == ResolveUrlDatabase(project_url_from_stats_file(statsfile.name))
             with == WithProject(return_stats, project_url)
             parsed == parse_stats_file(stat_file_to_list(statsfile.lines))
         IN  StatsFilesScan(Tail(stats_files),
                 Put(with, project_url, SetWuHistory(with[project_url], parsed)))

\* Fault variant of DeltaDate: the delta is dated by the later snapshot.
DeltaDateLater(entry, next_entry) == DateOf(next_entry.TIME)

\* The date a delta is booked on: that of the earlier snapshot of the pair.
DeltaDate(entry, next_entry) == DateOf(entry.TIME)

\* The loop over the entries of one credit history: every entry but the
\* last adds next - current host total credit to the date of the entry.
RECURSIVE CreditEntriesScan(_, _, _, _)
CreditEntriesScan(credithistorylist, project_url, index, return_stats) ==
    IF index > Len(credithistorylist) - 1 THEN return_stats
    ELSE LET entry == credithistorylist[index]
             next_entry == credithistorylist[index + 1]
             with == WithProject(return_stats, project_url)
             credit_history == with[project_url].CREDIT_HISTORY
             delta_credits == next_entry.HOSTTOTALCREDIT - entry.HOSTTOTALCREDIT
             date == DeltaDate(entry, next_entry)
             old == IF date \in DOMAIN credit_history THEN credit_history[date] ELSE 0
         IN  CreditEntriesScan(credithistorylist, project_url, index + 1,
                 Put(with, project_url,
                     [with[project_url] EXCEPT
                         !.CREDIT_HISTORY = Put(credit_history, date, old + delta_credits)]))

\* The loop over the credit history files.
RECURSIVE CreditFilesScan(_, _)
CreditFilesScan(credit_history_files, return_stats) ==
    IF credit_history_files = <<>> THEN return_stats
    ELSE LET file == Head(credit_history_files)
             project_url ==
                 ResolveUrlDatabase(project_url_from_credit_history_file(file.name))
         IN  CreditFilesScan(Tail(credit_history_files),
                 CreditEntriesScan(file.snapshots, project_url, 1, return_stats))

\* The averages are computed on the histories as sequences; Today is the
\* day number of datetime.now().
Today == 100

RECURSIVE CreditSeq(_)
CreditSeq(credit_history) ==
    IF DOMAIN credit_history = {} THEN <<>>
    ELSE LET d == CHOOSE x \in DOMAIN credit_history :
                      \A y \in DOMAIN credit_history : x <= y
         IN  <<credit_history[d]>> \o
             CreditSeq([x \in (DOMAIN credit_history) \ {d} |-> credit_history[x]])

RECURSIVE BucketSeq(_)
BucketSeq(wu_history) ==
    IF DOMAIN wu_history = {} THEN <<>>
    ELSE LET d == CHOOSE x \in DOMAIN wu_history : \A y \in DOMAIN wu_history : x <= y
         IN  <<[TOTALWUS |-> wu_history[d].TOTALWUS,
                total_wall_time |-> wu_history[d].total_wall_time,
                total_cpu_time |-> wu_history[d].total_cpu_time,
                days_ago |-> Today - d]>> \o
             BucketSeq([x \in (DOMAIN wu_history) \ {d} |-> wu_history[x]])

\* config_files_to_stats on a directory listing: [raised, stats], where
\* raised records an error of calculate_credit_averages, which nothing in
\* the function catches.
config_files_to_stats(listing) ==
    LET stats_files == SelectSeq(listing, LAMBDA f : Contains(f.name, JobLogMark))
        credit_history_files ==
            SelectSeq(listing, LAMBDA f : StartsWith(f.name, StatisticsPrefix)
                                          /\ EndsWith(f.name, XmlSuffix))
        histories == CreditFilesScan(credit_history_files,
                                     StatsFilesScan(stats_files, <<>>))
        found_averages ==
            [url \in DOMAIN histories |->
                calculate_credit_averages(CreditSeq(histories[url].CREDIT_HISTORY),
                                          BucketSeq(histories[url].WU_HISTORY))]
    IN  IF \E url \in DOMAIN histories : found_averages[url].raised
        THEN [raised |-> TRUE, stats |-> <<>>]
        ELSE [raised |-> FALSE,
              stats |-> [url \in DOMAIN histories |->
                            [CREDIT_HISTORY |-> histories[url].CREDIT_HISTORY,
                             WU_HISTORY |-> histories[url].WU_HISTORY,
                             COMPILED_STATS |-> found_averages[url].stats]]]

\* Inputs: a directory of at most MaxFiles files with distinct names.  The
\* job logs hold one of a few line sequences; a credit history holds the
\* first snapshots of a chain of MaxChain snapshots.
MaxFiles == 2
MaxChain == 3
JobLogNames == { <<"j","o","b","_","l","o","g","_","a",".","b",".","t","x","t">>, <<"j","o","b","_","l","o","g","_","w","w","w",".","a",".","b",".","t","x","t">>, <<"j","o","b","_","l","o","g","_","c",".","d","_","e",".","t","x","t">> }
CreditNames == { <<"s","t","a","t","i","s","t","i","c","s","_","a",".","b",".","x","m","l">>, <<"s","t","a","t","i","s","t","i","c","s","_","w","w","w",".","a",".","b",".","x","m","l">> }
OtherNames == { <<"c","l","i","e","n","t","_","s","t","a","t","e",".","x","m","l">> }
Line(start, wall, cpu) ==
    [matched |-> TRUE, STARTTIME |-> start, WALLTIME |-> wall, CPUTIME |-> cpu]
EarlyTask == Line(30 * DaySeconds + 5, 3600, 1800)
LateTask == Line(90 * DaySeconds + 7, 7200, 3600)
EmptyStartTask == Line(EmptyField, 3600, 1800)
ZeroWallTask == Line(90 * DaySeconds + 9, 0, 0)
JobLogs == { <<>>, <<EarlyTask>>, <<EarlyTask, LateTask>>,
             <<EarlyTask, EmptyStartTask, LateTask>>, <<NoMatchLine, LateTask>>,
             <<ZeroWallTask>> }
ChainTimes == <<30 * DaySeconds + 1, 30 * DaySeconds + 600, 31 * DaySeconds + 1,
                31 * DaySeconds + 600, 32 * DaySeconds + 1>>
ChainCredits == <<0, 5, 7, 12, 20>>
Chain == [i \in 1..MaxChain |-> [TIME |-> ChainTimes[i], HOSTTOTALCREDIT |-> ChainCredits[i]]]
Prefixes(chain) == {SubSeq(chain, 1, n) : n \in 0..Len(chain)}
CfgFiles ==
    [name : JobLogNames, lines : JobLogs, snapshots : {<<>>}]
    \cup [name : CreditNames, lines : {<<>>}, snapshots : Prefixes(Chain)]
    \cup [name : OtherNames, lines : {<<>>}, snapshots : {<<>>}]
Listings ==
    UNION {{l \in [1..n -> CfgFiles] :
              \A i, j \in 1..n : l[i].name = l[j].name => i = j} : n \in 0..MaxFiles}

CfgInit ==
    /\ cfgOp = "none"
    /\ cfgDir = <<>>
    /\ cfgOut = [raised |-> FALSE, stats |-> <<>>]

ConfigFilesToStats ==
    /\ cfgOp = "none"
    /\ \E listing \in Listings :
          /\ cfgDir' = listing
          /\ cfgOut' = config_files_to_stats(listing)
    /\ cfgOp' = "config_files_to_stats"
    /\ UNCHANGED cfgOthers

CfgFinish ==
    /\ cfgOp # "none"
    /\ cfgOp' = "none"
    /\ cfgDir' = <<>>
    /\ cfgOut' = [raised |-> FALSE, stats |-> <<>>]
    /\ UNCHANGED cfgOthers

CfgNext ==
    \/ ConfigFilesToStats
    \/ CfgFinish

(***************************************************************************)
(* Magnitude added to the combined statistics                              *)
(* (StatsHelper.add_mag_to_combined_stats).  The combined statistics are a *)
(* sequence of entries in insertion order, each with the project URL and   *)
(* its COMPILED_STATS; mag_ratios is None or a table from URLs to ratios.  *)
(***************************************************************************)

\* mag_ratios = None.
NoRatios == [none |-> TRUE, table |-> <<>>]

\* if not mag_ratios: mag_ratios = {}
RatiosOrEmpty(mag_ratios) ==
    IF mag_ratios.none \/ DOMAIN mag_ratios.table = {} THEN <<>> ELSE mag_ratios.table

\* mag_ratios.get(project_url, 0)
found_mag_ratio(table, project_url) ==
    IF project_url \in DOMAIN table THEN table[project_url] ELSE Zero

\* Fault variant of NotListed: only the approved list is consulted.
NotApproved(project_url, approved_projects, preferred_projects) ==
    \A i \in DOMAIN approved_projects : approved_projects[i] # project_url

\* project_url not in approved_projects, and not in preferred_projects
NotListed(project_url, approved_projects, preferred_projects) ==
    /\ \A i \in DOMAIN approved_projects : approved_projects[i] # project_url
    /\ \A i \in DOMAIN preferred_projects : preferred_projects[i] # project_url

\* avg_credit_per_hour, 0 when COMPILED_STATS has no AVGCREDITPERHOUR
avg_credit_per_hour(compiled) ==
    IF compiled.has_avg THEN compiled.AVGCREDITPERHOUR ELSE Zero

\* The body of the loop for one project: its COMPILED_STATS afterwards.
WithMag(project_stats, ratio) ==
    IF ratio = Zero
    THEN [project_stats EXCEPT !.COMPILED_STATS =
              [has_avg |-> @.has_avg, AVGCREDITPERHOUR |-> @.AVGCREDITPERHOUR,
               has_mag |-> TRUE, AVGMAGPERHOUR |-> Zero, MAGPERCREDIT |-> Zero]]
    ELSE [project_stats EXCEPT !.COMPILED_STATS =
              [has_avg |-> @.has_avg, AVGCREDITPERHOUR |-> @.AVGCREDITPERHOUR,
               has_mag |-> TRUE,
               AVGMAGPERHOUR |-> RatMul(avg_credit_per_hour(@), ratio),
               MAGPERCREDIT |-> ratio]]

\* The unapproved list after the first n projects of combined_stats.
RECURSIVE UnapprovedScan(_, _, _, _, _)
UnapprovedScan(combined_stats, table, approved_projects, preferred_projects, n) ==
    IF n = 0 THEN <<>>
    ELSE LET rest == UnapprovedScan(combined_stats, table, approved_projects,
                                    preferred_projects, n - 1)
             project_url == combined_stats[n].url
         IN IF /\ found_mag_ratio(table, project_url) = Zero
               /\ NotListed(project_url, approved_projects, preferred_projects)
            THEN Append(rest, project_url)
            ELSE rest

add_mag_to_combined_stats(combined_stats, mag_ratios, approved_projects, preferred_projects) ==
    LET table == RatiosOrEmpty(mag_ratios)
    IN [stats |-> [i \in DOMAIN combined_stats |->
                      WithMag(combined_stats[i],
                              found_mag_ratio(table, combined_stats[i].url))],
        unapproved |-> UnapprovedScan(combined_stats, table, approved_projects,
                                      preferred_projects, Len(combined_stats))]

\* Sample inputs.
MaxCrunched == 2
AmagUrls == {"A", "B", "C"}
AmagCompiled ==
    {[has_avg |-> FALSE, AVGCREDITPERHOUR |-> Zero, has_mag |-> FALSE,
      AVGMAGPERHOUR |-> Zero, MAGPERCREDIT |-> Zero]}
    \cup {[has_avg |-> TRUE, AVGCREDITPERHOUR |-> a, has_mag |-> FALSE,
           AVGMAGPERHOUR |-> Zero, MAGPERCREDIT |-> Zero] : a \in {Zero, Rat(5, 2)}}
AmagEntries == [url : AmagUrls, COMPILED_STATS : AmagCompiled]
AmagStats ==
    {s \in UNION {[1..n -> AmagEntries] : n \in 0..MaxCrunched} :
        \A i, j \in DOMAIN s : i # j => s[i].url # s[j].url}
AmagRatioValues == {Zero, Rat(1, 2), Rat(3, 1)}
AmagRatios ==
    {NoRatios} \cup
    {[none |-> FALSE, table |-> t] :
        t \in UNION {[d -> AmagRatioValues] : d \in SUBSET {"A", "B"}}}
AmagLists == {<<>>, <<"A">>, <<"C">>, <<"A", "C">>}

AmagInit ==
    /\ amagOp = "none"
    /\ amagStats = <<>>
    /\ amagRatios = NoRatios
    /\ amagApproved = <<>>
    /\ amagPreferred = <<>>
    /\ amagOut = [stats |-> <<>>, unapproved |-> <<>>]

\* One call of add_mag_to_combined_stats.
AddMagToCombinedStats ==
    /\ amagOp = "none"
    /\ \E combined_stats \in AmagStats, mag_ratios \in AmagRatios,
          approved_projects \in AmagLists, preferred_projects \in AmagLists :
          /\ amagStats' = combined_stats
          /\ amagRatios' = mag_ratios
          /\ amagApproved' = approved_projects
          /\ amagPreferred' = preferred_projects
          /\ amagOut' = add_mag_to_combined_stats(combined_stats, mag_ratios,
                                                  approved_projects, preferred_projects)
    /\ amagOp' = "add_mag_to_combined_stats"
    /\ UNCHANGED amagOthers

AmagFinish ==
    /\ amagOp # "none"
    /\ amagOp' = "none"
    /\ amagStats' = <<>>
    /\ amagRatios' = NoRatios
    /\ amagApproved' = <<>>
    /\ amagPreferred' = <<>>
    /\ amagOut' = [stats |-> <<>>, unapproved |-> <<>>]
    /\ UNCHANGED amagOthers

AmagNext ==
    \/ AddMagToCombinedStats
    \/ AmagFinish

Init ==
    /\ RpcInit
    /\ UrlInit
    /\ MagInit
    /\ PidInit
    /\ LogInit
    /\ EffInit
    /\ PrioInit
    /\ AvgInit
    /\ BurlInit
    /\ RatioInit
    /\ CfgInit
    /\ AmagInit

SpecRpc == Init /\ [][RpcNext]_vars

SpecUrl == Init /\ [][UrlNext]_vars

SpecMag == Init /\ [][MagNext]_vars

SpecPid == Init /\ [][PidNext]_vars

SpecLog == Init /\ [][LogNext]_vars

SpecEff == Init /\ [][EffNext]_vars

SpecPrio == Init /\ [][PrioNext]_vars

SpecAvg == Init /\ [][AvgNext]_vars

SpecBurl == Init /\ [][BurlNext]_vars

SpecRatio == Init /\ [][RatioNext]_vars

SpecCfg == Init /\ [][CfgNext]_vars

SpecAmag == Init /\ [][AmagNext]_vars

(***************************************************************************)
(* Claims about the URL canonicalizer (SpecUrl)                            *)
(***************************************************************************)

\* C8: canonicalization is idempotent for every string:
\* resolve_url_database(resolve_url_database(x)) = resolve_url_database(x).
C8_Idempotent ==
    urlOp = "twice" => urlOut2 = urlOut

\* C9: every spelling of a host+path X (each scheme/www prefix, with or
\* without one trailing slash, in either letter case) canonicalizes to the
\* upper-cased X, and the list version returns the keys element-wise.
C9_SpellingsAgree ==
    urlOp = "list" =>
        /\ Len(urlOut) = Len(urlIn)
        /\ \A i \in DOMAIN urlIn :
              urlOut[i] = Upper(urlIn[Len(SchemePrefixes)])


(***************************************************************************)
(* Claims about the magnitude ratio cache (SpecMag)                        *)
(***************************************************************************)

\* The ways a call fails before its refresh completes.
FailKinds == {"rpc_exception", "empty_response", "compute_error"}

\* C1 as stated: a failing call leaves the cache unchanged and, once a refresh
\* has succeeded, returns exactly the table of the most recent successful
\* refresh; the cache changes only on a successful refresh.
C1_ReturnsLastGood ==
    [][/\ magKind' \in FailKinds =>
            /\ magCache' = magCache
            /\ magGood.has => magResult' = TableResult(magGood.table)
       /\ magCache' # magCache => magKind' \in {"ok", "dump_error"}]_vars

\* C1 amended: a failing call leaves the cache unchanged and returns the table
\* of the most recent successful refresh when that table is not empty, and
\* None when it is empty or no refresh has succeeded; the cache changes only
\* on a successful refresh.
C1_FailureKeepsCache ==
    [][/\ magKind' \in FailKinds =>
            /\ magCache' = magCache
            /\ magCache' = magGood.table
            /\ magResult' = IF magGood.has /\ DOMAIN magGood.table # {}
                            THEN TableResult(magGood.table)
                            ELSE NoneResult
       /\ magCache' # magCache => magKind' \in {"ok", "dump_error"}]_vars

\* A computation error after a successful refresh answered from the cache.
C1_Witness ==
    /\ magKind = "compute_error"
    /\ magGood.has
    /\ DOMAIN magGood.table # {}
    /\ magResult = TableResult(magGood.table)

\* C2 as stated: every result is a non-empty ratio table or None.
C2_NeverEmpty ==
    magKind # "none" => (magResult.isNone \/ DOMAIN magResult.table # {})

\* C2 amended: a call that falls back (the live call throws or returns empty,
\* the computation or the dump callback raises) returns the cache if it is
\* not empty and None otherwise, never an empty table; a call whose refresh
\* completes returns the table it computed, which may be empty.
C2_FallbackNeverEmpty ==
    /\ magKind \in FailKinds \cup {"dump_error"} =>
          /\ magResult.isNone \/ DOMAIN magResult.table # {}
          /\ magResult.isNone <=> DOMAIN magCache = {}
          /\ ~magResult.isNone => magResult.table = magCache
    /\ magKind = "ok" => magResult = TableResult(magCache)

\* An empty wallet response answered from a non-empty cache.
C2_Witness ==
    /\ magKind = "empty_response"
    /\ ~magResult.isNone
    /\ magResult.table = magCache

(***************************************************************************)
(* Claims about the retrying RPC layer (SpecRpc)                           *)
(***************************************************************************)

\* The attempts of the current call, in order.
Attempts == SelectSeq(rpcLog, LAMBDA e : e # "sleep")

\* C3: every attempt is immediately preceded by a sleep, at most maxRetries
\* attempts are made, nothing follows the first attempt that returns a
\* response, and with maxRetries = 0 no attempt is made.
C3_SleepBeforeEachAttempt ==
    /\ \A i \in DOMAIN rpcLog :
          rpcLog[i] # "sleep" => (i > 1 /\ rpcLog[i - 1] = "sleep")
    /\ Len(Attempts) <= rpcRetries
    /\ \A i \in DOMAIN rpcLog :
          (rpcLog[i] # "sleep" /\ AttemptVerdict(rpcFn, rpcLog[i]) = "return")
             => (i = Len(rpcLog) /\ rpcPc = "done")
    /\ rpcRetries = 0 => rpcLog = <<>>

\* The third attempt of a call returned a response after two failed ones.
C3_Witness ==
    /\ rpcPc = "done"
    /\ Len(Attempts) = 3
    /\ rpcRet = "Dict"
    /\ rpcLog[5] = "sleep"

C5_FalsyRetried ==
    [][(rpcPc = "attempt" /\ rpcLast' \in FalsyValues \cup {"Unparseable"})
          => rpcPc' = "test"]_vars

\* C5 amended: an attempt that raises (transport error or unparseable reply)
\* leads back to the loop test in both functions; run_rpc_command also retries
\* a parsed value whose string form is empty; every other parsed value, falsy
\* ones included, is returned to the caller at once.
C5_RetryOnlyOnErrorOrEmptyStr ==
    [][rpcPc = "attempt" =>
          /\ rpcPc' = "test" <=>
                \/ rpcLast' \in {"TransportError", "Unparseable"}
                \/ rpcFn = "boinc" /\ rpcLast' = "EmptyStr"
          /\ rpcPc' # "test" => (rpcPc' = "done" /\ rpcRet' = rpcLast')]_vars

\* run_rpc_command retried an empty string and then returned a parsed None.
C5_Witness ==
    /\ rpcFn = "boinc"
    /\ rpcPc = "done"
    /\ Len(Attempts) = 2
    /\ Attempts[1] = "EmptyStr"
    /\ rpcRet = "None"
    /\ rpcLast = "None"

(***************************************************************************)
(* Claims about the PID controller (SpecPid)                               *)
(***************************************************************************)

\* C6: after export_state() and import_state() of the exported state on a
\* freshly constructed controller, the import has completed without error,
\* the fresh controller has the clamped_ctrl of the original, and both have
\* the same clamped_ctrl after the next identical update.
C6_RoundTrip ==
    pidOp = "import_fresh" =>
        /\ pidFreshErr = "none"
        /\ clamped_ctrl(pidFresh) = clamped_ctrl(pid)
        /\ \A o \in OptValues, d \in DeltaTimes :
              LET a == delta_update(pid, o, d)
                  b == delta_update(pidFresh, o, d)
              IN  a.raised = b.raised /\ clamped_ctrl(a.c) = clamped_ctrl(b.c)

\* k_proportional = 0, t_integral = 0, t_derivative = 0.
Untuned(c) == c.k_proportional = Zero /\ c.t_integral = Zero /\ c.t_derivative = Zero

OwnMessage(m) == Upper(m.project) = Upper(logProject)

\* The message is at most 5 minutes old.
InWindow(m) == m.age <= WindowSeconds

\* The body carries a CPU-full signal / a GPU-full or no-GPU signal.
CpuFullSignal(m) ==
    \/ Contains(Upper(m.body), CpuJobCacheFull)
    \/ Contains(Upper(m.body), DontNeedJobCacheFull)
GpuFullSignal(m) ==
    \/ Contains(Upper(m.body), GpuJobCacheFull)
    \/ Contains(Upper(m.body), GpusNotUsable)
    \/ (Contains(Upper(m.body), DontNeed) /\ ~Contains(Upper(m.body), Gpu))

\* C10: cache_full(P, messages) is true only if, among the messages of
\* project P inside the 5-minute window, one carries a CPU-full signal and
\* one a GPU-full (or no-GPU) signal; the verdict is that of the list without
\* the messages of other projects.
C10_OnlyOwnWindowedSignals ==
    logOp = "cache_full" =>
        /\ logResult =>
              /\ \E i \in DOMAIN logMessages :
                    /\ OwnMessage(logMessages[i])
                    /\ InWindow(logMessages[i])
                    /\ CpuFullSignal(logMessages[i])
              /\ \E i \in DOMAIN logMessages :
                    /\ OwnMessage(logMessages[i])
                    /\ InWindow(logMessages[i])
                    /\ GpuFullSignal(logMessages[i])
        /\ logResult = cache_full(logProject, SelectSeq(logMessages, OwnMessage))

\* The same reading of "at most 5 minutes old" as InWindow, for a list.
Windowed(messages) == SelectSeq(messages, InWindow)

\* C11: a message more than 5 minutes old, however old, never changes the
\* verdict of cache_full or project_backoff: the verdict is that of the list
\* without such messages.
C11_OldMessagesIgnored ==
    /\ logOp = "cache_full" =>
          logResult = cache_full(logProject, Windowed(logMessages))
    /\ logOp = "project_backoff" =>
          logResult = project_backoff(logProject, Windowed(logMessages))

\* The project name occurs in the text of the message.
Tagged(m) == Contains(Upper(StrOfMessage(m)), Upper(logProject))

\* The verdict the rules give one message, tried in the order ignore,
\* positive phrase, negative phrase, composite: "skip", "true", "false", or
\* "none" when no rule matches.
RuleVerdict(m) ==
    IF backoff_ignore_message(m, IgnorePhrases) THEN "skip"
    ELSE IF AnyPhraseIn(PositivePhrases, Upper(m.body)) THEN "true"
    ELSE IF AnyPhraseIn(NegativePhrases, Upper(m.body)) THEN "false"
    ELSE IF /\ Contains(Upper(m.body), Needs)
            /\ Contains(Upper(m.body), ButOnly)
            /\ Contains(Upper(m.body), IsAvailableForUse) THEN "true"
    ELSE "none"

\* The messages that resolve the question: in-window, tagged, with a verdict.
Resolving(messages) ==
    {i \in DOMAIN messages :
        /\ InWindow(messages[i])
        /\ Tagged(messages[i])
        /\ RuleVerdict(messages[i]) \in {"true", "false"}}

\* C12: project_backoff returns the verdict of the first in-window,
\* project-tagged message that the ordered rules resolve, and false if there
\* is none.
C12_FirstResolvingMessageDecides ==
    logOp = "project_backoff" =>
        LET r == Resolving(logMessages) IN
          IF r = {} THEN logResult = FALSE
          ELSE LET first == CHOOSE i \in r : \A j \in r : i <= j
               IN  logResult = (RuleVerdict(logMessages[first]) = "true")

(***************************************************************************)
(* Claims about the magnitude efficiency selection                         *)
(***************************************************************************)

EffCalled == effOp = "get_most_mag_efficient_projects"
Eligible(item) == item.url \notin effIgnored /\ item.TOTALTASKS >= 10
EligibleItems == {i \in DOMAIN effStats : Eligible(effStats[i])}
Returned == {effResult[k] : k \in DOMAIN effResult}
MagOf(project_url) == StatsOf(effStats, project_url).AVGMAGPERHOUR

C14_ReturnedAreEligible ==
    EffCalled => \A k \in DOMAIN effResult : Eligible(StatsOf(effStats, effResult[k]))


\* The other eligible projects with a non-zero AVGMAGPERHOUR of at least
\* leader * (1 - percentdiff/100), in input order.
RECURSIVE Followers(_, _)
Followers(leader, i) ==
    IF i > Len(effStats) THEN <<>>
    ELSE LET item == effStats[i]
             floor == RatMul(MagOf(leader), RatSub(One, Rat(effPercent, 100)))
         IN  IF /\ item.url # leader
                /\ Eligible(item)
                /\ item.AVGMAGPERHOUR # Zero
                /\ ~RatLess(item.AVGMAGPERHOUR, floor)
             THEN <<item.url>> \o Followers(leader, i + 1)
             ELSE Followers(leader, i + 1)

\* C15: when some project is eligible, the returned list starts with an
\* eligible project whose AVGMAGPERHOUR is the highest among the eligible
\* projects (the leader) and continues with every other eligible project
\* with non-zero AVGMAGPERHOUR of at least leader * (1 - percentdiff/100),
\* in input order, no project listed twice.
C15_LeaderThenFollowers ==
    (EffCalled /\ EligibleItems # {}) =>
        /\ effResult # <<>>
        /\ Eligible(StatsOf(effStats, effResult[1]))
        /\ \A i \in EligibleItems :
               ~RatLess(MagOf(effResult[1]), effStats[i].AVGMAGPERHOUR)
        /\ Tail(effResult) = Followers(effResult[1], 1)
        /\ \A j, k \in DOMAIN effResult : effResult[j] = effResult[k] => j = k

(***************************************************************************)
(* Claims about the priority ordering                                      *)
(***************************************************************************)

PrioCalled == prioOp = "get_highest_priority_project"
IsAttached(project) == \E url \in prioAttached : ResolveUrlDatabase(url) = project
Weighted == {prioWeights[i].project : i \in DOMAIN prioWeights}
WeightOf(project) ==
    prioWeights[CHOOSE i \in DOMAIN prioWeights : prioWeights[i].project = project].weight
Ordered == {prioList[i] : i \in DOMAIN prioList}
Mapped == {prioDict[i].project : i \in DOMAIN prioDict}
DeficitOf(project) ==
    prioDict[CHOOSE i \in DOMAIN prioDict : prioDict[i].project = project].priority

\* C16: the returned list holds the keys of the returned map, each once,
\* in ascending order of the deficit stored in the map, so its first
\* element has the least deficit; when no weighted project is attached the
\* list and the map are empty.
C16_SortedByDeficit ==
    PrioCalled =>
        /\ Len(prioList) = Len(prioDict)
        /\ Ordered = Mapped
        /\ \A i, j \in DOMAIN prioList :
               i < j => ~RatLess(DeficitOf(prioList[j]), DeficitOf(prioList[i]))
        /\ \A p \in Mapped : ~RatLess(DeficitOf(p), DeficitOf(prioList[1]))
        /\ (\A p \in Weighted : ~IsAttached(p)) => prioList = <<>> /\ prioDict = <<>>

\* A call in which sorting moved a later-weighted project to the front.
C16_Witness ==
    /\ PrioCalled
    /\ Len(prioList) >= 2
    /\ prioList[1] # prioDict[1].project
    /\ RatLess(DeficitOf(prioList[1]), DeficitOf(prioList[2]))

\* C17 as stated: a weighted project that is not attached, or that is
\* attached but has no statistics, is in neither the ordering nor the map.
C17_MissingAreSkipped ==
    PrioCalled =>
        \A p \in Weighted :
            (~IsAttached(p) \/ prioStats[p] = NoStats) =>
                p \notin Ordered /\ p \notin Mapped

TimeBasis(weight) ==
    IF weight = 1 THEN SumField(prioStats, DOMAIN prioStats, "TOTALWALLTIME")
    ELSE SumField(prioStats, DOMAIN prioStats, "XDAYWALLTIME")

\* C17 amended: a weighted project that is not attached is in neither the
\* ordering nor the map; a weighted, attached project without statistics
\* is in both, with the deficit of a project whose existing time is zero,
\* -(time basis * weight / 1000) seconds in hours rounded to 2 places.
C17_UnattachedSkippedMissingRanked ==
    PrioCalled =>
        \A p \in Weighted :
            /\ ~IsAttached(p) => p \notin Ordered /\ p \notin Mapped
            /\ (IsAttached(p) /\ prioStats[p] = NoStats) =>
                   /\ p \in Ordered
                   /\ p \in Mapped
                   /\ DeficitOf(p) =
                          Round2(Rat(-(TimeBasis(WeightOf(p)) * WeightOf(p)),
                                     1000 * 3600))

\* A call with an unattached weighted project and an attached weighted
\* project without statistics that is ranked with a negative deficit.
C17_Witness ==
    /\ PrioCalled
    /\ \E p \in Weighted : ~IsAttached(p)
    /\ \E p \in Weighted :
          /\ IsAttached(p)
          /\ prioStats[p] = NoStats
          /\ p \in Ordered
          /\ RatLess(DeficitOf(p), Zero)

(***************************************************************************)
(* Claims about the credit averages                                        *)
(***************************************************************************)

AvgCalled == avgOp = "calculate_credit_averages"
TotalTasks == SumBuckets(avgWus, "TOTALWUS")
TotalWallTime == SumBuckets(avgWus, "total_wall_time")

\* C18: calculate_credit_averages raises no division error; with zero total
\* tasks the per-task and per-hour fields are zero, and with a non-zero
\* total of tasks the total wall time it divides by is not zero.
C18_NoDivisionError ==
    AvgCalled =>
        /\ ~avgOut.raised
        /\ TotalTasks = 0 =>
               /\ avgOut.stats.AVGWALLTIME = Zero
               /\ avgOut.stats.AVGCPUTIME = Zero
               /\ avgOut.stats.AVGCREDITPERTASK = Zero
               /\ avgOut.stats.AVGCREDITPERHOUR = Zero
        /\ TotalTasks # 0 => TotalWallTime # 0

(***************************************************************************)
(* Claims about the URL resolution for BOINC RPC                           *)
(***************************************************************************)

\* The candidates in the stated order of preference.
Preferred ==
    (IF burlDevMode THEN burlDev ELSE <<>>) \o burlAttached \o burlKnown

\* C20: resolve_url_boinc_rpc returns the first entry, in the order dev
\* attached set (only in dev mode), production attached set, known-project
\* list, whose upper-cased form contains the scheme/www-stripped upper-cased
\* URL, and returns the URL unchanged when no entry matches.
C20_FirstMatchInPreferenceOrder ==
    burlOp = "resolve_url_boinc_rpc" =>
        LET match == FirstMatch(BoincStripped(Upper(burlUrl)), Preferred)
        IN  burlOut = IF match = NoMatch THEN burlUrl ELSE match

(***************************************************************************)
(* Claims about get_project_mag_ratios_from_response (SpecRatio)           *)
(***************************************************************************)

RatioReturned ==
    ratioOp = "get_project_mag_ratios_from_response" /\ ~ratioOut.raised
Newest == ratioReply.series[1]
InNewest == IF ratioLookback < 1 THEN {} ELSE DOMAIN Newest.projects
Resolvable(name) == GrcProjectNameToUrl(name, ratioResolver).found
UrlOf(name) == ResolveUrlDatabase(GrcProjectNameToUrl(name, ratioResolver).url)

\* The snapshots among the first lookback_period that list the project.
Appearances(name) ==
    {i \in 1..ratioLookback : name \in DOMAIN ratioReply.series[i].projects}

RECURSIVE RacSum(_, _)
RacSum(name, snapshots) ==
    IF snapshots = {} THEN 0
    ELSE LET i == CHOOSE x \in snapshots : TRUE
         IN  ratioReply.series[i].projects[name] + RacSum(name, snapshots \ {i})

\* (total_magnitude / total_projects of snapshot 0) / mean RAC
ExpectedRatio(name) ==
    RatDiv(Rat(Newest.total_magnitude, Newest.total_projects),
           Rat(RacSum(name, Appearances(name)), Cardinality(Appearances(name))))

\* The position of a project in snapshot 0's order.
PositionOf(name) == CHOOSE i \in DOMAIN MagNames : MagNames[i] = name

\* The last project of snapshot 0, in its order, that resolves to the URL.
LastFor(url) ==
    LET same == {n \in InNewest : Resolvable(n) /\ UrlOf(n) = url}
    IN  CHOOSE n \in same : \A o \in same : PositionOf(o) <= PositionOf(n)

\* C19: when get_project_mag_ratios_from_response returns, every entry of
\* its result belongs to a project listed in snapshot 0 (a project listed
\* only in older snapshots contributes none), and every project listed in
\* snapshot 0 that resolves to a URL has an entry under its canonical URL
\* whose value is (total_magnitude / total_projects of snapshot 0) divided
\* by the mean of the project's RAC over the snapshots, among the first
\* lookback_period, that list it; of several projects resolving to the
\* same URL the entry is that of the last one.
C19_RatiosFromNewestSnapshot ==
    RatioReturned =>
        /\ \A url \in DOMAIN ratioOut.table :
               \E n \in InNewest : Resolvable(n) /\ UrlOf(n) = url
        /\ \A n \in InNewest :
               Resolvable(n) =>
                   /\ UrlOf(n) \in DOMAIN ratioOut.table
                   /\ ratioOut.table[UrlOf(n)] = ExpectedRatio(LastFor(UrlOf(n)))

\* A returning call over two snapshots in which one resolvable project is
\* listed only in the older snapshot and has no entry, and another is
\* listed in both with different RACs and has an entry.
C19_Witness ==
    /\ RatioReturned
    /\ ratioLookback = 2
    /\ \E n \in MagNameSet :
          /\ n \notin InNewest
          /\ n \in DOMAIN ratioReply.series[2].projects
          /\ Resolvable(n)
          /\ UrlOf(n) \notin DOMAIN ratioOut.table
    /\ \E n \in InNewest :
          /\ Resolvable(n)
          /\ n \in DOMAIN ratioReply.series[2].projects
          /\ ratioReply.series[2].projects[n] # Newest.projects[n]
          /\ UrlOf(n) \in DOMAIN ratioOut.table

(***************************************************************************)
(* Claims about the statistics aggregation (SpecCfg)                       *)
(***************************************************************************)

CfgReturned == cfgOp = "config_files_to_stats" /\ ~cfgOut.raised
IsJobLog(f) == Contains(f.name, JobLogMark)
IsCreditFile(f) == StartsWith(f.name, StatisticsPrefix) /\ EndsWith(f.name, XmlSuffix)
JobLogKey(f) == ResolveUrlDatabase(project_url_from_stats_file(f.name))
CreditKey(f) == ResolveUrlDatabase(project_url_from_credit_history_file(f.name))
JobLogsOf(key) == {i \in DOMAIN cfgDir : IsJobLog(cfgDir[i]) /\ JobLogKey(cfgDir[i]) = key}
CreditFilesOf(key) ==
    {i \in DOMAIN cfgDir : IsCreditFile(cfgDir[i]) /\ CreditKey(cfgDir[i]) = key}
ParsedOf(i) == parse_stats_file(stat_file_to_list(cfgDir[i].lines))

\* The sum of one bucket field, on one date, over a set of job logs.
RECURSIVE BucketTotal(_, _, _)
BucketTotal(files, date, field) ==
    IF files = {} THEN 0
    ELSE LET i == CHOOSE x \in files : TRUE
             b == IF date \in DOMAIN ParsedOf(i) THEN ParsedOf(i)[date] ELSE NewBucket
         IN  (CASE field = "TOTALWUS" -> b.TOTALWUS
                [] field = "total_wall_time" -> b.total_wall_time
                [] field = "total_cpu_time" -> b.total_cpu_time)
             + BucketTotal(files \ {i}, date, field)

\* The pairs (file, index) of adjacent snapshots whose earlier snapshot
\* falls on the date.
PairsOn(files, date) ==
    {<<i, k>> \in files \X (1..MaxChain) :
        /\ k < Len(cfgDir[i].snapshots)
        /\ DateOf(cfgDir[i].snapshots[k].TIME) = date}

RECURSIVE DeltaTotal(_)
DeltaTotal(pairs) ==
    IF pairs = {} THEN 0
    ELSE LET p == CHOOSE x \in pairs : TRUE
             series == cfgDir[p[1]].snapshots
         IN  (series[p[2] + 1].HOSTTOTALCREDIT - series[p[2]].HOSTTOTALCREDIT)
             + DeltaTotal(pairs \ {p})

AllDates == 0..Today

\* C21: for every project key of the result, WU_HISTORY holds, per date,
\* the totals over every job log whose file name resolves to the key, and
\* CREDIT_HISTORY holds, per date, the sum of the deltas of every credit
\* history file whose name resolves to the key; both are functions of the
\* set of files, whatever the listing order.
C21_MergesPerProject ==
    CfgReturned =>
        \A key \in DOMAIN cfgOut.stats :
            /\ \A d \in AllDates :
                   LET wus == BucketTotal(JobLogsOf(key), d, "TOTALWUS")
                       held == cfgOut.stats[key].WU_HISTORY
                   IN  IF wus = 0 THEN d \notin DOMAIN held
                       ELSE /\ d \in DOMAIN held
                            /\ held[d].TOTALWUS = wus
                            /\ held[d].total_wall_time =
                                   BucketTotal(JobLogsOf(key), d, "total_wall_time")
                            /\ held[d].total_cpu_time =
                                   BucketTotal(JobLogsOf(key), d, "total_cpu_time")
            /\ \A d \in AllDates :
                   LET pairs == PairsOn(CreditFilesOf(key), d)
                       held == cfgOut.stats[key].CREDIT_HISTORY
                   IN  IF pairs = {} THEN d \notin DOMAIN held
                       ELSE d \in DOMAIN held /\ held[d] = DeltaTotal(pairs)

CreditKeys == {CreditKey(cfgDir[i]) : i \in {j \in DOMAIN cfgDir : IsCreditFile(cfgDir[j])}}

\* C22: when config_files_to_stats returns, the CREDIT_HISTORY of a project
\* holds, on each date, the sum over its credit history files of the
\* differences later host total - earlier host total of the adjacent
\* snapshot pairs whose earlier snapshot falls on that date: one delta for
\* every snapshot but the last of a series, and none for a series of 0 or
\* 1 snapshots.
C22_DeltasByEarlierSnapshot ==
    CfgReturned =>
        \A key \in CreditKeys :
            \A d \in AllDates :
                LET pairs == PairsOn(CreditFilesOf(key), d)
                IN  IF pairs = {}
                    THEN key \in DOMAIN cfgOut.stats =>
                             d \notin DOMAIN cfgOut.stats[key].CREDIT_HISTORY
                    ELSE /\ key \in DOMAIN cfgOut.stats
                         /\ d \in DOMAIN cfgOut.stats[key].CREDIT_HISTORY
                         /\ cfgOut.stats[key].CREDIT_HISTORY[d] = DeltaTotal(pairs)

\* A returning call with a series of three snapshots, two of them on the
\* same date: that date holds both deltas and the date of the last
\* snapshot holds none; a second series, of one snapshot, adds nothing.
C22_Witness ==
    /\ CfgReturned
    /\ \E i \in DOMAIN cfgDir :
          LET series == cfgDir[i].snapshots
              key == CreditKey(cfgDir[i])
          IN  /\ IsCreditFile(cfgDir[i])
              /\ Len(series) = 3
              /\ DateOf(series[1].TIME) = DateOf(series[2].TIME)
              /\ DateOf(series[3].TIME) # DateOf(series[2].TIME)
              /\ key \in DOMAIN cfgOut.stats
              /\ DateOf(series[3].TIME) \notin DOMAIN cfgOut.stats[key].CREDIT_HISTORY
              /\ cfgOut.stats[key].CREDIT_HISTORY[DateOf(series[1].TIME)] =
                     series[3].HOSTTOTALCREDIT - series[1].HOSTTOTALCREDIT
    /\ \E i \in DOMAIN cfgDir :
          /\ IsCreditFile(cfgDir[i])
          /\ Len(cfgDir[i].snapshots) = 1

\* The buckets of the records whose fields parse.
BucketsOfParsable(stat_list) ==
    WuHistoryScan(SelectSeq(stat_list, LAMBDA wu : wu.STARTTIME # EmptyField), <<>>)

\* C24: a work-unit record with a field that does not parse is skipped and
\* the buckets of the other records are still returned: the WU_HISTORY of
\* a project with one job log is built from the parsable records of that
\* log.
C24_MalformedRecordSkipped ==
    CfgReturned =>
        \A key \in DOMAIN cfgOut.stats :
            \A i \in JobLogsOf(key) :
                JobLogsOf(key) = {i} =>
                    cfgOut.stats[key].WU_HISTORY =
                        BucketsOfParsable(stat_file_to_list(cfgDir[i].lines))

(***************************************************************************)
(* Claims about add_mag_to_combined_stats (SpecAmag)                       *)
(***************************************************************************)

AmagReturned == amagOp = "add_mag_to_combined_stats"

\* The ratio passed for a project is known and not zero.
KnownRatio(url) ==
    /\ ~amagRatios.none
    /\ url \in DOMAIN amagRatios.table
    /\ amagRatios.table[url] # Zero

OnList(url, list_) == \E i \in DOMAIN list_ : list_[i] = url

Unapproved(url) == OnList(url, amagOut.unapproved)

\* C23: a project with no known ratio, or a zero one, gets AVGMAGPERHOUR
\* and MAGPERCREDIT zero and is listed as unapproved exactly when it is on
\* neither the approved nor the preferred list; a project with a known
\* ratio gets AVGMAGPERHOUR = AVGCREDITPERHOUR * ratio (AVGCREDITPERHOUR
\* read as 0 when the project has none) and is never listed as unapproved.
C23_MagAddedPerProject ==
    AmagReturned =>
        /\ Len(amagOut.stats) = Len(amagStats)
        /\ \A i \in DOMAIN amagStats :
              LET url == amagStats[i].url
                  before == amagStats[i].COMPILED_STATS
                  after == amagOut.stats[i].COMPILED_STATS
              IN  /\ amagOut.stats[i].url = url
                  /\ after.has_mag
                  /\ IF KnownRatio(url)
                     THEN /\ after.AVGMAGPERHOUR =
                                RatMul(IF before.has_avg THEN before.AVGCREDITPERHOUR
                                       ELSE Zero,
                                       amagRatios.table[url])
                          /\ ~Unapproved(url)
                     ELSE /\ after.AVGMAGPERHOUR = Zero
                          /\ after.MAGPERCREDIT = Zero
                          /\ Unapproved(url) <=>
                                (~OnList(url, amagApproved) /\ ~OnList(url, amagPreferred))

\* A call with a project of known ratio and non-zero credit rate, a project
\* of zero ratio on neither list, which is returned as unapproved, and a
\* preferred list that is not empty.
C23_Witness ==
    /\ AmagReturned
    /\ \E i, j \in DOMAIN amagStats :
          /\ KnownRatio(amagStats[i].url)
          /\ amagStats[i].COMPILED_STATS.has_avg
          /\ amagOut.stats[i].COMPILED_STATS.AVGMAGPERHOUR = Rat(5, 4)
          /\ ~KnownRatio(amagStats[j].url)
          /\ amagOut.unapproved = <<amagStats[j].url>>
    /\ amagPreferred # <<>>

(***************************************************************************)
(* Further claims about the log state classifier (SpecLog)                 *)
(***************************************************************************)

\* The message is at most five minutes old, carries the queried project's
\* name as its project and is not the "no new tasks" notice.
OwnRecent(i) ==
    /\ logMessages[i].age <= WindowSeconds
    /\ Upper(logMessages[i].project) = Upper(logProject)
    /\ ~Contains(Upper(logMessages[i].body), NoNewTasksViaManager)

\* C25: a recent message of the evaluated project whose body contains
\* "GPU: JOB CACHE FULL" or "GPUS NOT USABLE" sets the GPU flag, with or
\* without the "NOT REQUESTING TASKS: DON'T NEED" phrase in the same body:
\* together with a recent message that sets the CPU flag, cache_full
\* returns True.
C25_GpuPhrasesSetGpuFull ==
    (/\ logOp = "cache_full"
     /\ \E i \in DOMAIN logMessages :
           /\ OwnRecent(i)
           /\ \/ Contains(Upper(logMessages[i].body), GpuJobCacheFull)
              \/ Contains(Upper(logMessages[i].body), GpusNotUsable)
     /\ \E j \in DOMAIN logMessages :
           /\ OwnRecent(j)
           /\ \/ Contains(Upper(logMessages[j].body), CpuJobCacheFull)
              \/ Contains(Upper(logMessages[j].body), DontNeedJobCacheFull))
        => logResult = TRUE

\* C29: a message whose project field names another project never changes
\* the verdict of project_backoff, also when the other project's name or
\* the message text contains the queried name: the verdict is that of the
\* list without the other projects' messages.
C29_BackoffIsolatedAcrossProjects ==
    logOp = "project_backoff" =>
        logResult = project_backoff(logProject, SelectSeq(logMessages, OwnMessage))

(***************************************************************************)
(* Further claims about the thermal PID controller (SpecPid)               *)
(***************************************************************************)

\* A delta_update, called directly or by timestamp_update, has just
\* returned a control change.
Updated == pidOp \in {"delta_update", "timestamp_update"} /\ pidDelta # NoneVal

\* The time step of the update that led to controller c.
StepOf(c) == IF c.delta_time = NoneVal THEN Zero ELSE c.delta_time

\* The proportional and derivative parts of the control change that takes
\* controller c to controller d: the three-point difference of the errors.
PdChange(c, d) ==
    LET error == d.error_0
        k_p == IF c.error_0 = NoneVal THEN Zero ELSE c.k_proportional
        derivative == c.error_0 # NoneVal /\ c.error_1 # NoneVal /\ c.delta_time # NoneVal
        k_d == IF derivative THEN RatMul(c.k_proportional, c.t_derivative) ELSE Zero
        last == IF c.error_0 = NoneVal THEN Zero ELSE c.error_0
    IN  IF ~derivative THEN RatMul(k_p, RatSub(error, last))
        ELSE LET dt_mid == RatDiv(RatAdd(StepOf(d), c.delta_time), <<2, 1>>)
                 dt_ratio == RatDiv(StepOf(d), c.delta_time)
             IN  RatAdd(RatMul(k_p, RatSub(error, last)),
                        RatMul(RatDiv(k_d, dt_mid),
                               RatAdd(RatSub(error, RatMul(RatAdd(One, dt_ratio), last)),
                                      RatMul(dt_ratio, c.error_1))))

\* C26: anti-windup.  In every update taken while the accumulator is beyond
\* the soft clamp, the integral gain is zero: the control change is the
\* proportional and derivative parts alone.
C26_AntiWindup ==
    [][(/\ Updated'
        /\ pidErr' = "none"
        /\ RatLess(ClampSoft, RatAbs(pid.ctrl)))
          => pidDelta' = PdChange(pid, pid')]_vars

\* An update of a tuned controller (integral time not zero) with a non-zero
\* error and time step, taken while the accumulator was beyond the soft
\* clamp (the accumulator before the update is the one after it less the
\* change, the hard clamp not having acted), with a non-zero change.
C26_Witness ==
    /\ Updated
    /\ pidErr = "none"
    /\ pid.k_proportional # Zero
    /\ pid.t_integral # Zero
    /\ pid.error_0 # Zero
    /\ pid.delta_time # NoneVal
    /\ pidDelta # Zero
    /\ RatLess(RatAbs(pid.ctrl), ClampHard)
    /\ RatLess(ClampSoft, RatAbs(RatSub(pid.ctrl, pidDelta)))

\* C27: after every delta_update the accumulator lies in
\* [-clamp_hard, clamp_hard], clamp_hard is greater than clamp_soft, and in
\* every state clamped_ctrl lies in [clamped_low, clamped_high].
C27_AccumulatorWithinHardClamp ==
    /\ pidOp = "delta_update" =>
          /\ ~RatLess(pid.ctrl, RatNeg(ClampHard))
          /\ ~RatLess(ClampHard, pid.ctrl)
    /\ RatLess(ClampSoft, ClampHard)
    /\ clamped_ctrl(pid).tag \in {"low", "sig", "high"}

\* C30: the PID update never raises, whatever the gains, the error sample
\* and the time step, a time step of 0 from two equal timestamps included.
C30_UpdateNeverRaises ==
    pidOp \in {"delta_update", "timestamp_update"} => pidErr = "none"

(***************************************************************************)
(* Further claims about the URL resolution for BOINC RPC (SpecBurl)        *)
(***************************************************************************)

\* The memo before any call.
EmptyMemo == [k \in BoincKeys |-> NotCached]

\* C28: the result of every resolve_url_boinc_rpc call is what an
\* unmemoized evaluation of that call's own arguments returns; it never
\* depends on the sets passed in an earlier call for the same URL and
\* dev_mode.
C28_ResultFromOwnArguments ==
    burlOp = "resolve_url_boinc_rpc" =>
        burlOut = resolve_url_boinc_rpc(EmptyMemo, burlUrl, burlAttached, burlDev,
                                        burlKnown, burlDevMode)

=============================================================================
